---- MODULE Spec2Model ----
(***************************************************************************)
(* Model of the YeRakh authentication service: users, e-mail verification  *)
(* tokens and the refresh-token ledger (issue, rotate, reuse detection,    *)
(* logout), as implemented by src/src/Auth/services.py and the handlers of *)
(* src/src/Auth/routes.py.                                                 *)
(*                                                                         *)
(* UUIDs are modelled by fresh naturals: a row's id is its position in the *)
(* table, a refresh-token string is a fresh natural, a family id is one    *)
(* more than the largest family id in the table.  Time is counted in       *)
(* minutes.  The audit timestamps (created_at, updated_at, last_login) and *)
(* the display names are not part of the state.                            *)
(*                                                                         *)
(* The storage service of src/src/StorageApp (file metadata, the quota,    *)
(* the two-phase upload and the deletion) is part of the model as well.    *)
(*                                                                         *)
(* The specifications share the state and the operators:                   *)
(*   Spec          every handler as one step, from the empty database;     *)
(*   SpecLedger    login, refresh and logout as one step each, from a      *)
(*                 database with two users, with more refresh tokens;      *)
(*   SpecConc      register and Google login split at their awaits, so     *)
(*                 that concurrent requests interleave;                    *)
(*   SpecNotify    register, login and refresh with an SMTP server that    *)
(*                 may fail;                                               *)
(*   SpecWildcards the folder operations on folder names that hold a LIKE   *)
(*                 wildcard;                                               *)
(*   SpecRetries   the storage requests against an object store whose      *)
(*                 first attempts fail;                                    *)
(*   SpecBearer    requests that present any signed token as the bearer    *)
(*                 token;                                                  *)
(*   SpecSweepOfOne the cleanup and the uploads of one user;               *)
(*   SpecRotation  refresh split at its awaits, with a commit that may     *)
(*                 fail;                                                   *)
(*   SpecIdentity  register with either provider tag, e-mail verification  *)
(*                 and Google login;                                       *)
(*   SpecCodec     login and the authentication dependency, with a clock   *)
(*                 of half an access-token lifetime;                       *)
(*   SpecStorage   upload, confirm and delete of files, from a database    *)
(*                 with two users;                                         *)
(*   SpecAccounts  register with either value of is_active, and password   *)
(*                 login;                                                  *)
(*   SpecUploads   upload split at its awaits;                             *)
(*   SpecFolders   the listing and the deletion of virtual folders, from a *)
(*                 database with six files;                                *)
(*   SpecSweep     upload, confirm and the nightly cleanup of unconfirmed  *)
(*                 uploads, with a clock of half the maximal age.          *)
(***************************************************************************)
EXTENDS Integers, Sequences, FiniteSets, TLC

\* ---------------------------------------------------------------- bounds
MaxUsers == 2
MaxTokens == 3
MaxTicks == 2
\* the whole service is explored with fewer refresh tokens than the ledger
MaxSessions == 1
\* the requests handled concurrently
MaxRequests == 2
\* the file rows ever inserted
MaxFiles == 2

\* ------------------------------------------------------ program constants
REFRESH_TOKEN_EXPIRE_DAYS == 30
VERIFICATION_TOKEN_EXPIRE_HOURS == 24
ACCESS_TOKEN_EXPIRE_MINUTES == 30
\* 400 * 1024 * 1024
MAX_STORAGE_BYTES == 419430400
\* max_retries of DiskManager.delete_blob
max_retries == 3
\* max_age_hours of the nightly cleanup
max_age_hours == 24

RefreshTTL == REFRESH_TOKEN_EXPIRE_DAYS * 24 * 60
VerificationTTL == VERIFICATION_TOKEN_EXPIRE_HOURS * 60
\* the clock advances in steps of half a refresh-token lifetime, so that a
\* token is seen before, exactly at and after its expiry
TickMinutes == RefreshTTL \div 2

\* ------------------------------------------------------------ input sets
Emails == {"a@x", "b@x"}
\* the values of auth_provider a registration body carries: the default and
\* one that is neither the default nor that of the Google login
Providers == {"password", "github"}
Passwords == {"pw1", "pw2"}
\* the password every registration request carries
RegisteredPassword == "pw1"
NULL == <<>>
\* the token string no refresh token was ever issued with
UnknownTokenString == 0
\* the form fields of an upload: two names in one folder, and two sizes, of
\* which two of the first fill the quota exactly and any other pair exceeds it.
\* A folder path is the sequence of its characters.
FileNames == {"f", "g"}
Folders == {<<"d", "o", "c", "s">>}
HalfQuota == MAX_STORAGE_BYTES \div 2
Sizes == {HalfQuota, HalfQuota + 1}

VARIABLES
    users,                \* table users: sequence of User rows, uid = index
    verification_tokens,  \* table verification_tokens: set of rows
    refresh_tokens,       \* table refresh_tokens: sequence of rows, id = index
    now,                  \* datetime.now(), in minutes
    issued_verification,  \* the signed verification tokens mailed so far
    redeemed,             \* token strings for which refresh returned 200
    result,               \* response of the last request
    inflight,             \* the requests being handled: where each one is
                          \* between two awaits, and what it has read
    files,                \* table files: set of FileModel rows
    file_seq,             \* the number of FileModel rows inserted so far
    blobs                 \* the bucket: uuids of the files whose blob exists

vars == <<users, verification_tokens, refresh_tokens, now,
          issued_verification, redeemed, result, inflight,
          files, file_seq, blobs>>

storage_vars == <<files, file_seq, blobs>>
auth_vars == <<users, verification_tokens, refresh_tokens, now,
               issued_verification, redeemed, inflight>>

\* ------------------------------------------------------------- responses
NoResult ==
    [op |-> "none", status |-> 0, detail |-> "", arg |-> 0,
     email |-> "", password |-> "",
     access |-> {}, refresh |-> 0, count |-> 0,
     folders |-> {}, listed |-> {}, mail |-> "none"]

Response(op, status, detail, arg) ==
    [NoResult EXCEPT !.op = op, !.status = status, !.detail = detail,
                     !.arg = arg]

\* ------------------------------------------------------ credential hasher
generate_password_hash(password) == <<"bcrypt", password>>

\* a verification that accepts every password
verify_any_password(plain, hashed) == TRUE

verify_password(plain, hashed) == hashed = generate_password_hash(plain)

\* ------------------------------------------------------------ token codec
create_access_token(sub, email, n) ==
    [sub |-> sub, email |-> email, exp |-> n + ACCESS_TOKEN_EXPIRE_MINUTES,
     sig |-> "ok"]

create_verification_token(user_id, n) ==
    [sub |-> user_id, type |-> "email_verification",
     exp |-> n + VerificationTTL, sig |-> "ok"]

\* a copy of a signed token whose signature no longer verifies
Tampered(tok) == [tok EXCEPT !.sig = "bad"]

\* jwt.decode: {} (modelled as the empty set) for a bad signature or an
\* expired token, otherwise the payload
verify_token(tok, n) ==
    IF tok.sig # "ok" THEN {}
    ELSE IF tok.exp <= n THEN {}
    ELSE {tok}

\* the payload jwt.decode returns for a token whose signature verifies: the
\* claims it was encoded with
Claims(tok) == [f \in DOMAIN tok \ {"sig"} |-> tok[f]]

\* the outcomes of decode_access_token
TokenStatuses == {"valid", "expired", "invalid", "error"}

\* a decoder that reports an expired token like a bad signature
decode_without_expired(tok, n) ==
    IF tok.sig # "ok" \/ tok.exp <= n
    THEN [status |-> "invalid", payload |-> {}]
    ELSE [status |-> "valid", payload |-> {Claims(tok)}]

\* decode_access_token: jwt.decode verifies the signature, then the expiry;
\* the payload is the set holding the claims, empty when there are none
decode_access_token(tok, n) ==
    IF tok.sig # "ok" THEN [status |-> "invalid", payload |-> {}]
    ELSE IF tok.exp <= n THEN [status |-> "expired", payload |-> {}]
    ELSE [status |-> "valid", payload |-> {Claims(tok)}]

\* get_current_user: the code of the 401 it raises for a decode status, ""
\* when it raises none
credentials_error(status) ==
    IF status = "expired" THEN "token_expired"
    ELSE IF status # "valid" THEN "token_invalid"
    ELSE ""

\* get_current_user: the HTTP status, the detail and the uid of the user it
\* returns
get_current_user(tok, n, us) ==
    LET r == decode_access_token(tok, n)
    IN  IF credentials_error(r.status) # ""
        THEN [status |-> 401, detail |-> credentials_error(r.status),
              uid |-> 0]
        ELSE LET payload == CHOOSE c \in r.payload : TRUE
             IN  IF payload.sub = 0
                 THEN [status |-> 401, detail |-> "Invalid token payload",
                       uid |-> 0]
                 ELSE IF payload.sub \notin 1..Len(us)
                 THEN [status |-> 404, detail |-> "User not found", uid |-> 0]
                 ELSE IF ~us[payload.sub].is_active
                 THEN [status |-> 403, detail |-> "Inactive user", uid |-> 0]
                 ELSE [status |-> 200, detail |-> "", uid |-> payload.sub]

\* ----------------------------------------------------------------- users
\* a deletion that removes no record
KeepVerificationTokens(vt, user_id) == vt

\* verify_email: the records left after every VerificationToken whose
\* user_id is that of the subject was deleted
DeleteVerificationTokens(vt, user_id) == {v \in vt : v.user_id # user_id}

UsersByEmail(us, email) == {i \in 1..Len(us) : us[i].email = email}

\* select(User).where(User.email == email), scalar_one_or_none():
\* "none", "one" or "multiple" (MultipleResultsFound is raised)
get_user_by_email(us, email) ==
    LET m == UsersByEmail(us, email)
    IN  IF m = {} THEN [found |-> "none", uid |-> 0]
        ELSE IF Cardinality(m) = 1
             THEN [found |-> "one", uid |-> CHOOSE i \in m : TRUE]
             ELSE [found |-> "multiple", uid |-> 0]

\* User(**body) of create_user_by_password; the body supplies is_verified,
\* auth_provider and is_active and leaves provider_id at its default
NewPasswordUser(uid, email, password, verified, provider, active) ==
    [uid |-> uid, email |-> email,
     password_hash |-> generate_password_hash(password),
     auth_provider |-> provider, provider_id |-> NULL,
     is_verified |-> verified, is_active |-> active]

NewOAuthUser(uid, email, provider, provider_id) ==
    [uid |-> uid, email |-> email, password_hash |-> NULL,
     auth_provider |-> provider, provider_id |-> provider_id,
     is_verified |-> TRUE, is_active |-> TRUE]

\* the subject id Google reports for an e-mail address
GoogleSub(email) == <<"sub", email>>

\* a link that stores the provider id and leaves is_verified as it was
LinkProviderUnverified(u, provider_id) == [u EXCEPT !.provider_id = provider_id]

\* the link branch of create_user_by_Oauth: the provider id is stored on the
\* existing row and the row is marked verified; auth_provider stays as it is
LinkProvider(u, provider_id) ==
    [u EXCEPT !.provider_id = provider_id, !.is_verified = TRUE]

\* create_user_by_Oauth: the table after its commit, the HTTP status it ends
\* with and the uid of the user it returns
create_user_by_Oauth(us, email, provider, provider_id) ==
    LET u == get_user_by_email(us, email)
    IN  IF u.found = "multiple"
        THEN [users |-> us, status |-> 500, uid |-> 0]
        ELSE IF u.found = "one"
        THEN IF us[u.uid].auth_provider = provider
             THEN [users |-> us, status |-> 200, uid |-> u.uid]
             ELSE IF us[u.uid].auth_provider = "password" /\ provider = "google"
             THEN [users |-> [us EXCEPT ![u.uid] =
                                         LinkProvider(us[u.uid], provider_id)],
                   status |-> 200, uid |-> u.uid]
             ELSE [users |-> us, status |-> 409, uid |-> 0]
        ELSE [users |-> Append(us, NewOAuthUser(Len(us) + 1, email, provider,
                                                provider_id)),
              status |-> 200, uid |-> Len(us) + 1]

\* -------------------------------------------------- refresh-token ledger
FamilyIds(toks) == {toks[i].family_id : i \in 1..Len(toks)}

MaxOf(S) == IF S = {} THEN 0 ELSE CHOOSE x \in S : \A y \in S : y <= x

\* a family id that is the same at every login
FirstFamilyId(toks) == 1

\* uuid.uuid4() for a family: a value no row carries
NewFamilyId(toks) == MaxOf(FamilyIds(toks)) + 1

\* uuid.uuid4() for a token string: a value no row carries
NewTokenString(toks) == Len(toks) + 1

create_refresh_token(toks, user_id, previous_token_id, family_id, n) ==
    Append(toks,
        [id |-> Len(toks) + 1,
         user_id |-> user_id,
         token |-> NewTokenString(toks),
         family_id |-> IF family_id = 0 THEN NewFamilyId(toks) ELSE family_id,
         previous_token_id |-> previous_token_id,
         expires_at |-> n + RefreshTTL,
         is_revoked |-> FALSE])

\* a lookup that leaves out the revoked rows
SelectActiveTokenByString(toks, s) ==
    {i \in 1..Len(toks) : toks[i].token = s /\ ~toks[i].is_revoked}

\* a lookup that compares with >= instead of ==
SelectTokenAtLeast(toks, s) == {i \in 1..Len(toks) : toks[i].token >= s}

\* select(RefreshToken).where(RefreshToken.token == s): the matching ids
SelectTokenByString(toks, s) == {i \in 1..Len(toks) : toks[i].token = s}

\* a reuse test that forgets the expiry
IsRevokedOnly(t, n) == t.is_revoked

\* the reuse test of refresh_token
IsReuse(t, n) == t.is_revoked \/ t.expires_at <= n

\* a selection without the is_revoked == False filter
FamilySelectedAll(toks, family_id) ==
    {i \in 1..Len(toks) : toks[i].family_id = family_id}

\* revoke_token_family: the rows it selects, the table after its commit and
\* the count it returns
FamilySelected(toks, family_id) ==
    {i \in 1..Len(toks) :
        toks[i].family_id = family_id /\ toks[i].is_revoked = FALSE}

\* a revocation whose filter is inverted (is_revoked == True): it selects
\* the rows that are revoked already and so revokes nothing
revoke_revoked_of_family(toks, family_id) ==
    LET sel == {i \in 1..Len(toks) :
                   toks[i].family_id = family_id /\ toks[i].is_revoked}
    IN  [tokens |-> [i \in 1..Len(toks) |->
                        IF i \in sel THEN [toks[i] EXCEPT !.is_revoked = TRUE]
                        ELSE toks[i]],
         count |-> Cardinality(sel)]

revoke_token_family(toks, family_id) ==
    LET sel == FamilySelected(toks, family_id)
    IN  [tokens |-> [i \in 1..Len(toks) |->
                        IF i \in sel THEN [toks[i] EXCEPT !.is_revoked = TRUE]
                        ELSE toks[i]],
         count |-> Cardinality(sel)]

\* a rotation that leaves the redeemed token active
KeepForRotation(toks, i) == toks

\* the rotation step of refresh_token: token.is_revoked = True
RevokeForRotation(toks, i) == [toks EXCEPT ![i].is_revoked = TRUE]

\* a successor minted without family_id, which starts a new family
IssueSuccessorNewFamily(toks, i, uid, n) ==
    create_refresh_token(toks, uid, toks[i].id, 0, n)

\* the successor minted by refresh_token
IssueSuccessor(toks, i, uid, n) ==
    create_refresh_token(toks, uid, toks[i].id, toks[i].family_id, n)

\* which branch refresh_token takes for the rows matching the string
RefreshBranch(toks, m, n) ==
    IF m = {} THEN "invalid"
    ELSE LET t == toks[CHOOSE i \in m : TRUE]
         IN  IF IsReuse(t, n) THEN "reuse" ELSE "rotate"

\* a logout that cascades to the family of the token
LogoutFamily(toks, s) ==
    [i \in 1..Len(toks) |->
        IF \E j \in 1..Len(toks) :
              toks[j].token = s /\ toks[j].family_id = toks[i].family_id
        THEN [toks[i] EXCEPT !.is_revoked = TRUE]
        ELSE toks[i]]

\* logout: the table after its commit
LogoutTokens(toks, s) ==
    [i \in 1..Len(toks) |->
        IF toks[i].token = s THEN [toks[i] EXCEPT !.is_revoked = TRUE]
        ELSE toks[i]]

\* ------------------------------------------------------------------ Init
Requests == 1..MaxRequests

\* a request slot that handles nothing; a request that is being handled
\* keeps its arguments and what it has read in the fields
Idle == [pc |-> "idle", email |-> "", verified |-> FALSE, uid |-> 0,
         token |-> 0, rows |-> {}, name |-> "", folder |-> <<>>, size |-> 0]

\* no file was ever uploaded
StorageEmpty == files = {} /\ file_seq = 0 /\ blobs = {}

Init ==
    /\ StorageEmpty
    /\ inflight = [p \in Requests |-> Idle]
    /\ users = <<>>
    /\ verification_tokens = {}
    /\ refresh_tokens = <<>>
    /\ now = 0
    /\ issued_verification = {}
    /\ redeemed = {}
    /\ result = NoResult

\* ---------------------------------------------------------- notifications

\* EmailSender.send_verification_email: True when the SMTP server took the
\* message, False when anything raised; smtp_ok tells whether the server
\* takes it
send_verification_email(smtp_ok) == IF smtp_ok THEN "True" ELSE "False"

\* an alert whose SMTP error leaves the coroutine
alert_raising(user_found, smtp_ok) ==
    IF ~user_found THEN "False"
    ELSE IF smtp_ok THEN "True" ELSE "raise"

\* EmailSender.alert_user_about_token_reuse: False without a user and when
\* anything raised, True when the SMTP server took the message
alert_user_about_token_reuse(user_found, smtp_ok) ==
    IF ~user_found THEN "False"
    ELSE IF smtp_ok THEN "True" ELSE "False"

\* what a handler answers after a notification: an exception that left the
\* sender would end the request with HTTP 500, any value it returned is
\* ignored
AfterMail(sent, response) ==
    IF sent = "raise"
    THEN [Response(response.op, 500, "Internal Server Error", response.arg)
          EXCEPT !.mail = "failed"]
    ELSE [response EXCEPT !.mail = IF sent = "True" THEN "sent" ELSE "failed"]

\* --------------------------------------------------------------- actions
\* POST /auth/register; smtp_ok tells whether the SMTP server takes the
\* verification mail
RegisterWithMail(email, password, verified, provider, active, smtp_ok) ==
    LET u == get_user_by_email(users, email)
    IN  /\ UNCHANGED <<refresh_tokens, now, redeemed>>
        /\ IF u.found = "multiple"
           THEN /\ result' = Response("register", 500, "MultipleResultsFound", 0)
                /\ UNCHANGED <<users, verification_tokens, issued_verification>>
           ELSE IF u.found = "one"
           THEN /\ result' = Response("register", 409,
                                      "A user with same email exists", 0)
                /\ UNCHANGED <<users, verification_tokens, issued_verification>>
           ELSE LET uid == Len(users) + 1
                        tok == create_verification_token(uid, now)
                IN  /\ users' = Append(users,
                            NewPasswordUser(uid, email, password, verified,
                                            provider, active))
                    /\ verification_tokens' = verification_tokens \cup
                            {[user_id |-> uid, token |-> tok,
                              expires_at |-> now + VerificationTTL]}
                    /\ issued_verification' =
                          IF send_verification_email(smtp_ok) = "True"
                          THEN issued_verification \cup {tok}
                          ELSE issued_verification
                    /\ result' = AfterMail(
                          send_verification_email(smtp_ok),
                          Response("register", 201,
                                   "User registered successfully", uid))

\* POST /auth/register with an SMTP server that works
Register(email, password, verified, provider, active) ==
    RegisterWithMail(email, password, verified, provider, active, TRUE)

\* GET /auth/verify-email
VerifyEmail(tok) ==
    LET payload == verify_token(tok, now)
    IN  /\ UNCHANGED <<refresh_tokens, now, issued_verification, redeemed>>
        /\ IF payload = {} \/ tok.type # "email_verification"
           THEN /\ result' = Response("verify_email", 400,
                                      "Invalid verification token", 0)
                /\ UNCHANGED <<users, verification_tokens>>
           ELSE IF tok.exp < now
           THEN /\ result' = Response("verify_email", 400,
                                      "Verification token has expired", 0)
                /\ UNCHANGED <<users, verification_tokens>>
           ELSE IF tok.sub \notin 1..Len(users)
           THEN /\ result' = Response("verify_email", 404, "User not found", 0)
                /\ UNCHANGED <<users, verification_tokens>>
           ELSE /\ users' = [users EXCEPT ![tok.sub].is_verified = TRUE]
                /\ verification_tokens' =
                       DeleteVerificationTokens(verification_tokens, tok.sub)
                /\ result' = Response("verify_email", 200,
                                      "Email verified successfully", tok.sub)

\* POST /auth/login
LoginResponse(status, detail, uid, email, password) ==
    [Response("login", status, detail, uid)
     EXCEPT !.email = email, !.password = password]

LoginWithPassword(email, password) ==
    LET u == get_user_by_email(users, email)
    IN  /\ UNCHANGED <<users, verification_tokens, now, issued_verification,
                       redeemed>>
        /\ IF u.found = "multiple"
           THEN /\ result' = LoginResponse(500, "MultipleResultsFound", 0,
                                           email, password)
                /\ UNCHANGED refresh_tokens
           ELSE IF u.found = "none"
           THEN /\ result' = LoginResponse(401, "Invalid credentials", 0,
                                           email, password)
                /\ UNCHANGED refresh_tokens
           ELSE IF users[u.uid].auth_provider # "password"
           THEN /\ result' = LoginResponse(400,
                                  "This account uses another authentication",
                                  u.uid, email, password)
                /\ UNCHANGED refresh_tokens
           ELSE IF ~verify_password(password, users[u.uid].password_hash)
           THEN /\ result' = LoginResponse(401, "Invalid credentials", u.uid,
                                           email, password)
                /\ UNCHANGED refresh_tokens
           ELSE IF ~users[u.uid].is_verified
           THEN /\ result' = LoginResponse(403, "Email not verified", u.uid,
                                           email, password)
                /\ UNCHANGED refresh_tokens
           ELSE /\ refresh_tokens' =
                       create_refresh_token(refresh_tokens, u.uid, 0, 0, now)
                /\ result' = [LoginResponse(200, "bearer", u.uid, email,
                                            password)
                              EXCEPT !.access = {create_access_token(u.uid,
                                                     email, now)},
                                     !.refresh = NewTokenString(refresh_tokens)]

\* POST /auth/login/google; valid tells whether Google accepts the assertion
LoginWithGoogle(valid, email) ==
    /\ UNCHANGED <<verification_tokens, now, issued_verification, redeemed>>
    /\ IF ~valid
       THEN /\ result' = Response("login_google", 401,
                                  "Invalid Google authentication token", 0)
            /\ UNCHANGED <<users, refresh_tokens>>
       ELSE LET r == create_user_by_Oauth(users, email, "google",
                                          GoogleSub(email))
            IN  IF r.status # 200
                THEN /\ result' = Response("login_google", r.status,
                                           "create_user_by_Oauth failed", 0)
                     /\ UNCHANGED <<users, refresh_tokens>>
                ELSE /\ users' = r.users
                     /\ refresh_tokens' =
                            create_refresh_token(refresh_tokens, r.uid, 0, 0,
                                                 now)
                     /\ result' =
                          [Response("login_google", 200, "bearer", r.uid)
                           EXCEPT !.access = {create_access_token(r.uid, email,
                                                                  now)},
                                  !.refresh = NewTokenString(refresh_tokens)]

\* POST /auth/refresh; smtp_ok tells whether the SMTP server takes the
\* security alert
RefreshTokenWithMail(s, smtp_ok) ==
    LET m == SelectTokenByString(refresh_tokens, s)
        branch == RefreshBranch(refresh_tokens, m, now)
    IN  /\ UNCHANGED <<users, verification_tokens, now, issued_verification>>
        /\ IF branch = "invalid"
           THEN /\ result' = Response("refresh", 401, "Invalid refresh token", s)
                /\ UNCHANGED <<refresh_tokens, redeemed>>
           ELSE LET i == CHOOSE j \in m : TRUE
                    t == refresh_tokens[i]
                IN  IF branch = "reuse"
                    THEN LET r == revoke_token_family(refresh_tokens,
                                                      t.family_id)
                         IN  /\ refresh_tokens' = r.tokens
                             /\ UNCHANGED redeemed
                             /\ result' = AfterMail(
                                   alert_user_about_token_reuse(
                                       t.user_id \in 1..Len(users), smtp_ok),
                                   [Response("refresh", 401,
                                             "Security alert", s)
                                    EXCEPT !.count = r.count])
                    ELSE IF t.user_id \notin 1..Len(users)
                    THEN /\ result' = Response("refresh", 404,
                                               "User not found", s)
                         /\ UNCHANGED <<refresh_tokens, redeemed>>
                    ELSE /\ refresh_tokens' =
                                IssueSuccessor(
                                    RevokeForRotation(refresh_tokens, i),
                                    i, t.user_id, now)
                         /\ redeemed' = redeemed \cup {s}
                         /\ result' =
                              [Response("refresh", 200, "bearer", s)
                               EXCEPT !.access = {create_access_token(
                                          t.user_id, users[t.user_id].email,
                                          now)},
                                      !.refresh =
                                          NewTokenString(refresh_tokens)]

\* POST /auth/refresh with an SMTP server that works
RefreshToken(s) == RefreshTokenWithMail(s, TRUE)

\* POST /auth/logout
Logout(s) ==
    /\ refresh_tokens' = LogoutTokens(refresh_tokens, s)
    /\ result' = Response("logout", 200, "Successfully logged out", s)
    /\ UNCHANGED <<users, verification_tokens, now, issued_verification,
                   redeemed>>

\* the clock
Tick ==
    /\ now' = now + TickMinutes
    /\ result' = NoResult
    /\ UNCHANGED <<users, verification_tokens, refresh_tokens,
                   issued_verification, redeemed>>

\* the token strings a client can present: those issued, and an unknown one
TokenStrings == {UnknownTokenString} \cup
                {refresh_tokens[i].token : i \in 1..Len(refresh_tokens)}

\* the signed tokens a client can present to verify-email
VerificationInputs ==
    issued_verification \cup {Tampered(t) : t \in issued_verification}

\* the part of the state space a specification explores: at most u users,
\* t refresh tokens and k clock steps
Within(u, t, k) ==
    /\ Len(users') <= u
    /\ Len(refresh_tokens') <= t
    /\ now' <= k * TickMinutes

\* ------------------------------------------------- the whole service
InSpec ==
    /\ Within(MaxUsers, MaxSessions, MaxTicks)
    /\ UNCHANGED <<inflight, files, file_seq, blobs>>

Next ==
    \/ \E e \in Emails, v \in BOOLEAN :
          Register(e, RegisteredPassword, v, "password", TRUE) /\ InSpec
    \/ \E tok \in VerificationInputs : VerifyEmail(tok) /\ InSpec
    \/ \E e \in Emails, p \in Passwords : LoginWithPassword(e, p) /\ InSpec
    \/ \E ok \in BOOLEAN, e \in Emails : LoginWithGoogle(ok, e) /\ InSpec
    \/ \E s \in TokenStrings : RefreshToken(s) /\ InSpec
    \/ \E s \in TokenStrings : Logout(s) /\ InSpec
    \/ Tick /\ InSpec

Spec == Init /\ [][Next]_vars

\* ------------------------------------------- the refresh-token ledger
\* The ledger is explored from the state the service is in after
\* a@x registered and verified the e-mail address and b@x logged in with
\* Google: two users, and the first refresh token of b@x.
InitAccounts ==
    /\ inflight = [p \in Requests |-> Idle]
    /\ users = <<[NewPasswordUser(1, "a@x", RegisteredPassword, FALSE,
                                  "password", TRUE)
                    EXCEPT !.is_verified = TRUE],
                 NewOAuthUser(2, "b@x", "google", GoogleSub("b@x"))>>
    /\ verification_tokens = {}
    /\ issued_verification = {create_verification_token(1, 0)}
    /\ refresh_tokens = create_refresh_token(<<>>, 2, 0, 0, 0)
    /\ now = 0
    /\ redeemed = {}
    /\ result = [Response("login_google", 200, "bearer", 2)
                 EXCEPT !.access = {create_access_token(2, "b@x", 0)},
                        !.refresh = 1]

InitLedger == StorageEmpty /\ InitAccounts

InLedger ==
    /\ Within(MaxUsers, MaxTokens, MaxTicks)
    /\ UNCHANGED <<inflight, files, file_seq, blobs>>

NextLedger ==
    \/ \E e \in Emails, p \in Passwords : LoginWithPassword(e, p) /\ InLedger
    \/ \E ok \in BOOLEAN, e \in Emails : LoginWithGoogle(ok, e) /\ InLedger
    \/ \E s \in TokenStrings : RefreshToken(s) /\ InLedger
    \/ \E s \in TokenStrings : Logout(s) /\ InLedger
    \/ Tick /\ InLedger

SpecLedger == InitLedger /\ [][NextLedger]_vars

\* --------------------------------------- register and Google login, by step
\* Every request runs in a session of its own and the handlers are
\* coroutines: between two awaits of one request the statements of another
\* may run.  A step below is what one request does from one await to the next.
Finish(p) == inflight' = [inflight EXCEPT ![p] = Idle]

Goto(p, pc, email, verified, uid) ==
    inflight' = [inflight EXCEPT ![p] =
                    [Idle EXCEPT !.pc = pc, !.email = email,
                                 !.verified = verified, !.uid = uid]]

\* create_user_by_password: user_exists
RegisterCheck(p, email, verified) ==
    /\ inflight[p].pc = "idle"
    /\ UNCHANGED <<users, verification_tokens, refresh_tokens, now,
                   issued_verification, redeemed>>
    /\ LET u == get_user_by_email(users, email)
       IN  IF u.found = "multiple"
           THEN /\ result' = Response("register", 500, "MultipleResultsFound", 0)
                /\ Finish(p)
           ELSE IF u.found = "one"
           THEN /\ result' = Response("register", 409,
                                      "A user with same email exists", 0)
                /\ Finish(p)
           ELSE /\ Goto(p, "register_insert", email, verified, 0)
                /\ UNCHANGED result

\* create_user_by_password: session.add(new_user), commit
RegisterInsert(p) ==
    /\ inflight[p].pc = "register_insert"
    /\ users' = Append(users,
          NewPasswordUser(Len(users) + 1, inflight[p].email,
                          RegisteredPassword, inflight[p].verified,
                          "password", TRUE))
    /\ Goto(p, "register_token", inflight[p].email, inflight[p].verified,
            Len(users) + 1)
    /\ UNCHANGED <<verification_tokens, refresh_tokens, now,
                   issued_verification, redeemed, result>>

\* create_verification_token and the rest of the register handler
RegisterToken(p) ==
    /\ inflight[p].pc = "register_token"
    /\ LET uid == inflight[p].uid
           tok == create_verification_token(uid, now)
       IN  /\ verification_tokens' = verification_tokens \cup
                  {[user_id |-> uid, token |-> tok,
                    expires_at |-> now + VerificationTTL]}
           /\ issued_verification' = issued_verification \cup {tok}
           /\ result' = AfterMail(
                            send_verification_email(TRUE),
                            Response("register", 201,
                                     "User registered successfully", uid))
    /\ Finish(p)
    /\ UNCHANGED <<users, refresh_tokens, now, redeemed>>

\* login_with_google: verify_google_token, then user_exists of
\* create_user_by_Oauth
GoogleCheck(p, valid, email) ==
    /\ inflight[p].pc = "idle"
    /\ UNCHANGED <<users, verification_tokens, refresh_tokens, now,
                   issued_verification, redeemed>>
    /\ IF ~valid
       THEN /\ result' = Response("login_google", 401,
                                  "Invalid Google authentication token", 0)
            /\ Finish(p)
       ELSE LET u == get_user_by_email(users, email)
            IN  IF u.found = "multiple"
                THEN /\ result' = Response("login_google", 500,
                                           "MultipleResultsFound", 0)
                     /\ Finish(p)
                ELSE /\ Goto(p, IF u.found = "one" THEN "google_existing"
                                ELSE "google_create", email, TRUE, 0)
                     /\ UNCHANGED result

\* create_user_by_Oauth, the user exists: get_user_by_email again, then
\* return, link or reject
GoogleExisting(p) ==
    /\ inflight[p].pc = "google_existing"
    /\ UNCHANGED <<verification_tokens, refresh_tokens, now,
                   issued_verification, redeemed>>
    /\ LET r == create_user_by_Oauth(users, inflight[p].email, "google",
                                     GoogleSub(inflight[p].email))
       IN  IF r.status # 200
           THEN /\ result' = Response("login_google", r.status,
                                      "create_user_by_Oauth failed", 0)
                /\ Finish(p)
                /\ UNCHANGED users
           ELSE /\ users' = r.users
                /\ Goto(p, "google_issue", inflight[p].email, TRUE, r.uid)
                /\ UNCHANGED result

\* create_user_by_Oauth, no user was found: session.add(user), commit
GoogleCreate(p) ==
    /\ inflight[p].pc = "google_create"
    /\ users' = Append(users,
          NewOAuthUser(Len(users) + 1, inflight[p].email, "google",
                       GoogleSub(inflight[p].email)))
    /\ Goto(p, "google_issue", inflight[p].email, TRUE, Len(users) + 1)
    /\ UNCHANGED <<verification_tokens, refresh_tokens, now,
                   issued_verification, redeemed, result>>

\* login_with_google: the tokens and the response
GoogleIssue(p) ==
    /\ inflight[p].pc = "google_issue"
    /\ refresh_tokens' =
          create_refresh_token(refresh_tokens, inflight[p].uid, 0, 0, now)
    /\ result' = [Response("login_google", 200, "bearer", inflight[p].uid)
                  EXCEPT !.access = {create_access_token(inflight[p].uid,
                                         inflight[p].email, now)},
                         !.refresh = NewTokenString(refresh_tokens)]
    /\ Finish(p)
    /\ UNCHANGED <<users, verification_tokens, now, issued_verification,
                   redeemed>>

InConc ==
    /\ Within(MaxUsers, MaxTokens, MaxTicks)
    /\ UNCHANGED <<files, file_seq, blobs>>

NextConc ==
    \/ \E p \in Requests, e \in Emails, v \in BOOLEAN :
          RegisterCheck(p, e, v) /\ InConc
    \/ \E p \in Requests : RegisterInsert(p) /\ InConc
    \/ \E p \in Requests : RegisterToken(p) /\ InConc
    \/ \E p \in Requests, ok \in BOOLEAN, e \in Emails :
          GoogleCheck(p, ok, e) /\ InConc
    \/ \E p \in Requests : GoogleExisting(p) /\ InConc
    \/ \E p \in Requests : GoogleCreate(p) /\ InConc
    \/ \E p \in Requests : GoogleIssue(p) /\ InConc

SpecConc == Init /\ [][NextConc]_vars

\* ------------------------------------------------------- refresh, by step
\* a rotation whose failed commit keeps the revocation of the redeemed token
PartialRotation(toks, i, uid, n, commit_ok) ==
    IF commit_ok
    THEN IssueSuccessor(RevokeForRotation(toks, i), i, uid, n)
    ELSE RevokeForRotation(toks, i)

\* the commit of create_refresh_token, called by refresh_token: the UPDATE of
\* the redeemed token and the INSERT of its successor are flushed in one
\* transaction, which the database applies as a whole or not at all
CommitRotation(toks, i, uid, n, commit_ok) ==
    IF commit_ok
    THEN IssueSuccessor(RevokeForRotation(toks, i), i, uid, n)
    ELSE toks

\* the request p goes on at pc with the token row and the rows it has read
GotoToken(p, pc, s, i, rows) ==
    inflight' = [inflight EXCEPT ![p] =
                    [Idle EXCEPT !.pc = pc, !.token = s, !.uid = i,
                                 !.rows = rows]]

\* refresh_token: the select by token string and the reuse test on the row
\* it returned
RefreshRead(p, s) ==
    /\ inflight[p].pc = "idle"
    /\ UNCHANGED <<users, verification_tokens, refresh_tokens, now,
                   issued_verification, redeemed>>
    /\ LET m == SelectTokenByString(refresh_tokens, s)
           branch == RefreshBranch(refresh_tokens, m, now)
       IN  IF branch = "invalid"
           THEN /\ result' = Response("refresh", 401, "Invalid refresh token", s)
                /\ Finish(p)
           ELSE /\ GotoToken(p, IF branch = "reuse" THEN "refresh_family"
                                ELSE "refresh_user",
                             s, CHOOSE j \in m : TRUE, {})
                /\ UNCHANGED result

\* revoke_token_family: the select of the rows of the family that are not
\* revoked
RefreshFamily(p) ==
    /\ inflight[p].pc = "refresh_family"
    /\ GotoToken(p, "refresh_revoke", inflight[p].token, inflight[p].uid,
                 FamilySelected(refresh_tokens,
                                refresh_tokens[inflight[p].uid].family_id))
    /\ UNCHANGED <<users, verification_tokens, refresh_tokens, now,
                   issued_verification, redeemed, result>>

\* revoke_token_family: the commit of is_revoked = True for the rows it
\* selected; then the alert and the 401 of refresh_token
RefreshRevoke(p) ==
    /\ inflight[p].pc = "refresh_revoke"
    /\ refresh_tokens' = [i \in 1..Len(refresh_tokens) |->
                             IF i \in inflight[p].rows
                             THEN [refresh_tokens[i] EXCEPT !.is_revoked = TRUE]
                             ELSE refresh_tokens[i]]
    /\ result' = AfterMail(
                    alert_user_about_token_reuse(TRUE, TRUE),
                    [Response("refresh", 401, "Security alert",
                              inflight[p].token)
                     EXCEPT !.count = Cardinality(inflight[p].rows)])
    /\ Finish(p)
    /\ UNCHANGED <<users, verification_tokens, now, issued_verification,
                   redeemed>>

\* refresh_token: the select of the user of the token
RefreshUser(p) ==
    /\ inflight[p].pc = "refresh_user"
    /\ UNCHANGED <<users, verification_tokens, refresh_tokens, now,
                   issued_verification, redeemed>>
    /\ IF refresh_tokens[inflight[p].uid].user_id \notin 1..Len(users)
       THEN /\ result' = Response("refresh", 404, "User not found",
                                  inflight[p].token)
            /\ Finish(p)
       ELSE /\ GotoToken(p, "refresh_commit", inflight[p].token,
                         inflight[p].uid, {})
            /\ UNCHANGED result

\* refresh_token: token.is_revoked = True, the successor and their commit in
\* create_refresh_token; commit_ok tells whether the database accepts it.
\* The exception of a failed commit is not handled and ends the request
\* with HTTP 500.
RefreshCommit(p, commit_ok) ==
    /\ inflight[p].pc = "refresh_commit"
    /\ LET i == inflight[p].uid
           t == refresh_tokens[i]
       IN  /\ refresh_tokens' =
                  CommitRotation(refresh_tokens, i, t.user_id, now, commit_ok)
           /\ IF commit_ok
              THEN /\ redeemed' = redeemed \cup {inflight[p].token}
                   /\ result' =
                        [Response("refresh", 200, "bearer", inflight[p].token)
                         EXCEPT !.access = {create_access_token(
                                    t.user_id, users[t.user_id].email, now)},
                                !.refresh = NewTokenString(refresh_tokens)]
              ELSE /\ UNCHANGED redeemed
                   /\ result' = Response("refresh", 500,
                                         "Internal Server Error",
                                         inflight[p].token)
    /\ Finish(p)
    /\ UNCHANGED <<users, verification_tokens, now, issued_verification>>

InRotation ==
    /\ Within(MaxUsers, MaxTokens, MaxTicks)
    /\ UNCHANGED <<files, file_seq, blobs>>

NextRotation ==
    \/ \E p \in Requests, s \in TokenStrings : RefreshRead(p, s) /\ InRotation
    \/ \E p \in Requests : RefreshFamily(p) /\ InRotation
    \/ \E p \in Requests : RefreshRevoke(p) /\ InRotation
    \/ \E p \in Requests : RefreshUser(p) /\ InRotation
    \/ \E p \in Requests, ok \in BOOLEAN : RefreshCommit(p, ok) /\ InRotation

SpecRotation == InitLedger /\ [][NextRotation]_vars

\* ------------------------------------------------------- the token codec
\* the clock of the codec advances by half an access-token lifetime
AccessTick == ACCESS_TOKEN_EXPIRE_MINUTES \div 2

\* the bearer tokens a client can present: what create_access_token returned
\* for a stored user at a past clock value, and copies with a bad signature
AccessInputs ==
    LET issued == {create_access_token(i, users[i].email, t) :
                      i \in 1..Len(users),
                      t \in {x \in 0..now : x % AccessTick = 0}}
    IN  issued \cup {Tampered(t) : t \in issued}

\* a request that depends on get_current_user
Authenticate(tok) ==
    LET r == get_current_user(tok, now, users)
    IN  /\ result' = [Response("authenticate", r.status, r.detail, r.uid)
                      EXCEPT !.access = {tok}]
        /\ UNCHANGED <<users, verification_tokens, refresh_tokens, now,
                       issued_verification, redeemed>>

TickAccess ==
    /\ now' = now + AccessTick
    /\ result' = NoResult
    /\ UNCHANGED <<users, verification_tokens, refresh_tokens,
                   issued_verification, redeemed>>

InCodec ==
    /\ Len(refresh_tokens') <= MaxTokens
    /\ now' <= (MaxTicks + 1) * AccessTick
    /\ UNCHANGED <<inflight, files, file_seq, blobs>>

NextCodec ==
    \/ \E e \in Emails, p \in Passwords : LoginWithPassword(e, p) /\ InCodec
    \/ \E ok \in BOOLEAN, e \in Emails : LoginWithGoogle(ok, e) /\ InCodec
    \/ \E tok \in AccessInputs : Authenticate(tok) /\ InCodec
    \/ TickAccess /\ InCodec

SpecCodec == InitLedger /\ [][NextCodec]_vars

\* ------------------------------------------------------ the bearer tokens
\* Register, password login and requests that present any signed token a
\* client can hold, or a copy with a bad signature, as the bearer token,
\* from the empty database.
NextBearer ==
    \/ \E e \in Emails, v \in BOOLEAN :
          Register(e, RegisteredPassword, v, "password", TRUE) /\ InSpec
    \/ \E e \in Emails, p \in Passwords : LoginWithPassword(e, p) /\ InSpec
    \/ \E tok \in AccessInputs \cup VerificationInputs : Authenticate(tok) /\ InSpec

SpecBearer == Init /\ [][NextBearer]_vars

\* ------------------------------------------ registration and verification
\* Register with either provider tag in the body, e-mail verification,
\* Google login and the clock, from the empty database.
InIdentity ==
    /\ Within(MaxUsers, MaxTokens, MaxTicks)
    /\ UNCHANGED <<inflight, files, file_seq, blobs>>

NextIdentity ==
    \/ \E e \in Emails, v \in BOOLEAN, pr \in Providers :
          Register(e, RegisteredPassword, v, pr, TRUE) /\ InIdentity
    \/ \E tok \in VerificationInputs : VerifyEmail(tok) /\ InIdentity
    \/ \E ok \in BOOLEAN, e \in Emails : LoginWithGoogle(ok, e) /\ InIdentity
    \/ Tick /\ InIdentity

SpecIdentity == Init /\ [][NextIdentity]_vars

\* ----------------------------------------------------------- the accounts
\* Register with either value of is_active in the body, and password login,
\* from the empty database.
InAccounts ==
    /\ Within(MaxUsers, MaxTokens, MaxTicks)
    /\ UNCHANGED <<inflight, files, file_seq, blobs>>

NextAccounts ==
    \/ \E e \in Emails, v \in BOOLEAN, a \in BOOLEAN :
          Register(e, RegisteredPassword, v, "password", a) /\ InAccounts
    \/ \E e \in Emails, p \in Passwords :
          LoginWithPassword(e, p) /\ InAccounts

SpecAccounts == Init /\ [][NextAccounts]_vars

\* ---------------------------------------------------- the notifications
\* Register, password login and refresh with an SMTP server that may fail,
\* from the empty database.
NextNotify ==
    \/ \E e \in Emails, v \in BOOLEAN, ok \in BOOLEAN :
          RegisterWithMail(e, RegisteredPassword, v, "password", TRUE, ok)
             /\ InAccounts
    \/ \E e \in Emails, p \in Passwords : LoginWithPassword(e, p) /\ InAccounts
    \/ \E s \in TokenStrings, ok \in BOOLEAN :
          RefreshTokenWithMail(s, ok) /\ InAccounts

SpecNotify == Init /\ [][NextNotify]_vars

\* ------------------------------------------------------------ the storage
RECURSIVE SumSize(_)
\* func.sum(FileModel.size) over a set of rows
SumSize(rows) ==
    IF rows = {} THEN 0
    ELSE LET r == CHOOSE x \in rows : TRUE
         IN  r.size + SumSize(rows \ {r})

\* get_user_storage_usage: the sizes of all rows of the user, confirmed or not
get_user_storage_usage(fs, user_id) ==
    SumSize({f \in fs : f.user_id = user_id})

\* a limit that is reached already when the quota is filled exactly
check_storage_limit_at_least(fs, user_id, file_size) ==
    get_user_storage_usage(fs, user_id) + file_size >= MAX_STORAGE_BYTES

check_storage_limit(fs, user_id, file_size) ==
    get_user_storage_usage(fs, user_id) + file_size > MAX_STORAGE_BYTES

\* an existence check that sees the confirmed rows only
ExistingConfirmedFiles(fs, file_name, folder_path, user_id) ==
    {f \in fs : /\ f.name = file_name
                /\ f.folder_path = folder_path
                /\ f.user_id = user_id
                /\ f.confirmation}

\* the existence check of upload_file: the rows with that name, folder and
\* owner
ExistingFiles(fs, file_name, folder_path, user_id) ==
    {f \in fs : /\ f.name = file_name
                /\ f.folder_path = folder_path
                /\ f.user_id = user_id}

\* FileModel(...) of upload_file; uuid4() is the next unused number and
\* created_at defaults to datetime.now
NewFile(seq, file_name, folder_path, file_size, user_id) ==
    [uuid |-> seq + 1, name |-> file_name, folder_path |-> folder_path,
     size |-> file_size, user_id |-> user_id, confirmation |-> FALSE,
     created_at |-> now]

\* a lookup by uuid alone
get_file_of_anyone(fs, file_uuid, user_id) ==
    {f \in fs : f.uuid = file_uuid}

\* get_file: the rows with that uuid that belong to the user
get_file(fs, file_uuid, user_id) ==
    {f \in fs : f.uuid = file_uuid /\ f.user_id = user_id}

\* a rollback that undoes the insert although it was committed
RollbackUndoesInsert(fs, new_file) == fs \ {new_file}

\* session.rollback() in the except branch of upload_file, reached after the
\* commit of the insert: the committed row stays
RollbackAfterCommit(fs, new_file) == fs

\* what the object store does to one delete_blob call: the number of
\* attempts it lets fail before one succeeds, max_retries when none succeeds
FailedAttempts == 0..max_retries

\* DiskManager.delete_blob: True as soon as one attempt succeeds, False when
\* max_retries attempts raised; blob.delete() raises for a blob that does
\* not exist
delete_blob(bucket, file_uuid, failures) ==
    /\ file_uuid \in bucket
    /\ failures < max_retries

\* a deletion that removes the row whatever the object store reported
DeleteRowAlways(fs, file, gcs_result) == fs \ {file}

\* delete_file: the table after the object store reported gcs_result
DeleteRow(fs, file, gcs_result) ==
    IF gcs_result THEN fs \ {file} ELSE fs

\* StorageService.upload_file: the table after the call, the HTTP status and
\* detail it ends with, and the row concerned (the new row, or the row that
\* exists already); signed tells whether the object store signs the upload
\* URLs
upload_file(fs, seq, user_id, file_name, folder_path, file_size, signed) ==
    LET existing == ExistingFiles(fs, file_name, folder_path, user_id)
        new_file == NewFile(seq, file_name, folder_path, file_size, user_id)
    IN  IF Cardinality(existing) > 1
        THEN [files |-> fs, file_seq |-> seq, status |-> 500,
              detail |-> "MultipleResultsFound", arg |-> 0]
        ELSE IF existing # {}
        THEN [files |-> fs, file_seq |-> seq, status |-> 409,
              detail |-> "File already exists in folder",
              arg |-> (CHOOSE f \in existing : TRUE).uuid]
        ELSE IF check_storage_limit(fs, user_id, file_size)
        THEN \* HTTPException(413) is raised inside the try block and caught
             \* by its except Exception
             [files |-> fs, file_seq |-> seq, status |-> 500,
              detail |-> "File upload failed: 413: Storage limit exceeded",
              arg |-> 0]
        ELSE IF ~signed
        THEN [files |-> RollbackAfterCommit(fs \cup {new_file}, new_file),
              file_seq |-> seq + 1, status |-> 500,
              detail |-> "File upload failed: signing",
              arg |-> new_file.uuid]
        ELSE [files |-> fs \cup {new_file}, file_seq |-> seq + 1,
              status |-> 201, detail |-> "upload_url", arg |-> new_file.uuid]

\* POST /storage/upload_file by the user user_id
UploadFile(user_id, file_name, folder_path, file_size, signed) ==
    LET r == upload_file(files, file_seq, user_id, file_name, folder_path,
                         file_size, signed)
    IN  /\ files' = r.files
        /\ file_seq' = r.file_seq
        /\ result' = Response("upload_file", r.status, r.detail, r.arg)
        /\ UNCHANGED <<auth_vars, blobs>>

\* the client PUTs the content to the upload URL of the last response
PutBlob ==
    /\ result.op = "upload_file"
    /\ result.status = 201
    /\ result.arg \notin blobs
    /\ blobs' = blobs \cup {result.arg}
    /\ UNCHANGED <<auth_vars, files, file_seq, result>>

\* the route confirm_upload and StorageService.confirm_file_upload: the
\* table after the request and the status and detail it ends with
confirm_upload(fs, user_id, file_uuid) ==
    LET found == get_file(fs, file_uuid, user_id)
    IN  IF found = {}
        THEN [files |-> fs, status |-> 404, detail |-> "File not found"]
        ELSE [files |-> {IF f \in found
                         THEN [f EXCEPT !.confirmation = TRUE]
                         ELSE f : f \in fs},
              status |-> 200, detail |-> "File confirmed successfully"]

\* GET /storage/confirm_upload/{file_uuid}
ConfirmUpload(user_id, file_uuid) ==
    LET r == confirm_upload(files, user_id, file_uuid)
    IN  /\ files' = r.files
        /\ result' = Response("confirm_upload", r.status, r.detail, file_uuid)
        /\ UNCHANGED <<auth_vars, file_seq, blobs>>

\* StorageService.delete_file: the table and the bucket after the call and
\* the value returned, "None", "True" or "False"; failures tells how many
\* attempts of delete_blob the object store lets fail
delete_file(fs, bucket, user_id, file_uuid, failures) ==
    LET found == get_file(fs, file_uuid, user_id)
    IN  IF found = {}
        THEN [files |-> fs, blobs |-> bucket, returns |-> "None"]
        ELSE LET file == CHOOSE f \in found : TRUE
                 gcs_result == delete_blob(bucket, file.uuid, failures)
             IN  [files |-> DeleteRow(fs, file, gcs_result),
                  blobs |-> IF gcs_result THEN bucket \ {file.uuid}
                            ELSE bucket,
                  returns |-> IF gcs_result THEN "True" ELSE "False"]

\* the response of the delete_file route for the value the service returned
DeleteResponse(returns, file_uuid) ==
    IF returns = "None"
    THEN Response("delete_file", 404, "File not found", file_uuid)
    ELSE IF returns = "True"
    THEN Response("delete_file", 200, "File deleted successfully", file_uuid)
    ELSE Response("delete_file", 200,
                  "File deletion initiated, but GCS deletion failed",
                  file_uuid)

\* DELETE /storage/delete_file/{file_uuid}
DeleteFile(user_id, file_uuid, failures) ==
    LET r == delete_file(files, blobs, user_id, file_uuid, failures)
    IN  /\ files' = r.files
        /\ blobs' = r.blobs
        /\ result' = DeleteResponse(r.returns, file_uuid)
        /\ UNCHANGED <<auth_vars, file_seq>>

\* StorageService.get_file_response: "None" when the user has no such file,
\* else the signed URL of the blob, which is named after the owner, the uuid
\* and the file name; signed tells whether the object store signs it within
\* its three attempts, and the exception of the last attempt is raised when
\* it does not
get_file_response(fs, file_uuid, user_id, signed) ==
    LET found == get_file(fs, file_uuid, user_id)
    IN  IF found = {} THEN "None"
        ELSE IF signed THEN "signed_url"
        ELSE "raise"

\* the response of the get_file route for what the service returned
GetFileResponse(response, file_uuid) ==
    IF response = "None"
    THEN Response("get_file", 404, "File not found", file_uuid)
    ELSE IF response = "raise"
    THEN Response("get_file", 500, "Internal Server Error", file_uuid)
    ELSE Response("get_file", 200, response, file_uuid)

\* GET /storage/get_file/{file_uuid}
GetFile(user_id, file_uuid, signed) ==
    /\ result' = GetFileResponse(
                     get_file_response(files, file_uuid, user_id, signed),
                     file_uuid)
    /\ UNCHANGED <<auth_vars, storage_vars>>

\* StorageService.list_files: the rows of the user, newest first
list_files(fs, user_id) ==
    {f \in fs : f.user_id = user_id}

\* GET /storage/list_files: one entry for each row the service returned
ListFiles(user_id) ==
    /\ result' = [Response("list_files", 200, "files", user_id)
                  EXCEPT !.listed = {f.uuid : f \in list_files(files, user_id)}]
    /\ UNCHANGED <<auth_vars, storage_vars>>

\* the users that hold an access token, and the uuids a client can name
Owners == 1..Len(users)
FileIds == 1..(file_seq + 1)

InStorage == file_seq' <= MaxFiles

NextStorage ==
    \/ \E u \in Owners, n \in FileNames, d \in Folders, z \in Sizes,
          ok \in BOOLEAN : UploadFile(u, n, d, z, ok) /\ InStorage
    \/ PutBlob /\ InStorage
    \/ \E u \in Owners, id \in FileIds : ConfirmUpload(u, id) /\ InStorage
    \/ \E u \in Owners, id \in FileIds, a \in FailedAttempts :
          DeleteFile(u, id, a) /\ InStorage
    \/ \E u \in Owners, id \in FileIds, ok \in BOOLEAN :
          GetFile(u, id, ok) /\ InStorage
    \/ \E u \in Owners : ListFiles(u) /\ InStorage

SpecStorage == InitLedger /\ [][NextStorage]_vars

\* ------------------------------------------------- the object-store calls
\* DiskManager.generate_signed_upload_url as upload_file calls it: one call
\* of blob.generate_signed_url, which signs when the first attempt does;
\* failures is the number of attempts the object store lets fail
generate_signed_upload_url(failures) == failures = 0

\* DiskManager.generate_signed_url_with_retry: tenacity repeats the call
\* until one attempt returns or max_retries attempts raised
generate_signed_url_with_retry(failures) == failures < max_retries

\* The storage requests against an object store that lets the first
\* attempts of a call fail.
NextRetries ==
    \/ \E u \in Owners, n \in FileNames, d \in Folders,
          k \in FailedAttempts :
          UploadFile(u, n, d, HalfQuota, generate_signed_upload_url(k))
             /\ InStorage
    \/ PutBlob /\ InStorage
    \/ \E u \in Owners, id \in FileIds, k \in FailedAttempts :
          DeleteFile(u, id, k) /\ InStorage
    \/ \E u \in Owners, id \in FileIds, k \in FailedAttempts :
          GetFile(u, id, generate_signed_url_with_retry(k)) /\ InStorage

SpecRetries == InitLedger /\ [][NextRetries]_vars

\* -------------------------------------------------------- upload, by step
\* the request p goes on at pc with the form fields of the upload
GotoUpload(p, pc, user_id, file_name, folder_path, file_size) ==
    inflight' = [inflight EXCEPT ![p] =
                    [Idle EXCEPT !.pc = pc, !.uid = user_id,
                                 !.name = file_name, !.folder = folder_path,
                                 !.size = file_size]]

\* upload_file: the select of a row with that name, folder and owner
UploadExists(p, user_id, file_name, folder_path, file_size) ==
    /\ inflight[p].pc = "idle"
    /\ UNCHANGED <<users, verification_tokens, refresh_tokens, now,
                   issued_verification, redeemed, storage_vars>>
    /\ LET existing == ExistingFiles(files, file_name, folder_path, user_id)
       IN  IF Cardinality(existing) > 1
           THEN /\ result' = Response("upload_file", 500,
                                      "MultipleResultsFound", 0)
                /\ Finish(p)
           ELSE IF existing # {}
           THEN /\ result' = Response("upload_file", 409,
                                      "File already exists in folder",
                                      (CHOOSE f \in existing : TRUE).uuid)
                /\ Finish(p)
           ELSE /\ GotoUpload(p, "upload_quota", user_id, file_name,
                              folder_path, file_size)
                /\ UNCHANGED result

\* upload_file: check_storage_limit, which sums the sizes of the user's rows
UploadQuota(p) ==
    /\ inflight[p].pc = "upload_quota"
    /\ UNCHANGED <<users, verification_tokens, refresh_tokens, now,
                   issued_verification, redeemed, storage_vars>>
    /\ IF check_storage_limit(files, inflight[p].uid, inflight[p].size)
       THEN /\ result' = Response("upload_file", 500,
                     "File upload failed: 413: Storage limit exceeded", 0)
            /\ Finish(p)
       ELSE /\ GotoUpload(p, "upload_insert", inflight[p].uid,
                          inflight[p].name, inflight[p].folder,
                          inflight[p].size)
            /\ UNCHANGED result

\* upload_file: session.add(new_file) and its commit, then the signing of
\* the upload URLs, which changes nothing in the table
UploadInsert(p, signed) ==
    /\ inflight[p].pc = "upload_insert"
    /\ LET new_file == NewFile(file_seq, inflight[p].name, inflight[p].folder,
                               inflight[p].size, inflight[p].uid)
       IN  /\ files' = files \cup {new_file}
           /\ file_seq' = file_seq + 1
           /\ result' = IF signed
                        THEN Response("upload_file", 201, "upload_url",
                                      new_file.uuid)
                        ELSE Response("upload_file", 500,
                                      "File upload failed: signing",
                                      new_file.uuid)
    /\ Finish(p)
    /\ UNCHANGED <<users, verification_tokens, refresh_tokens, now,
                   issued_verification, redeemed, blobs>>

NextUploads ==
    \/ \E p \in Requests, u \in Owners, n \in FileNames, d \in Folders,
          z \in Sizes : UploadExists(p, u, n, d, z) /\ InStorage
    \/ \E p \in Requests : UploadQuota(p) /\ InStorage
    \/ \E p \in Requests, ok \in BOOLEAN : UploadInsert(p, ok) /\ InStorage

SpecUploads == InitLedger /\ [][NextUploads]_vars

\* ------------------------------------------------------ the virtual folders
RECURSIVE rstrip(_)
\* str.rstrip("/")
rstrip(s) ==
    IF s # <<>> /\ s[Len(s)] = "/"
    THEN rstrip(SubSeq(s, 1, Len(s) - 1))
    ELSE s

RECURSIVE lstrip(_)
\* the leading half of str.strip("/")
lstrip(s) ==
    IF s # <<>> /\ s[1] = "/" THEN lstrip(Tail(s)) ELSE s

\* str.strip("/")
strip(s) == lstrip(rstrip(s))

RECURSIVE FirstSegment(_)
\* s.split("/")[0]: the characters before the first slash
FirstSegment(s) ==
    IF s = <<>> \/ s[1] = "/" THEN <<>>
    ELSE <<s[1]>> \o FirstSegment(Tail(s))

RECURSIVE like(_, _)
\* the SQL operator LIKE without an escape character: % stands for any
\* sequence of characters and _ for any single character
like(s, pattern) ==
    IF pattern = <<>> THEN s = <<>>
    ELSE IF pattern[1] = "%"
    THEN like(s, Tail(pattern)) \/ (s # <<>> /\ like(Tail(s), pattern))
    ELSE IF pattern[1] = "_"
    THEN s # <<>> /\ like(Tail(s), Tail(pattern))
    ELSE s # <<>> /\ s[1] = pattern[1] /\ like(Tail(s), Tail(pattern))

\* the WHERE clause of delete_folder and explore_folder: the path is the
\* folder path, or it is LIKE the folder path followed by "/%"
InFolder(path, folder_path) ==
    \/ path = folder_path
    \/ like(path, folder_path \o <<"/", "%">>)

\* the rows delete_folder and explore_folder select
FolderRows(fs, user_id, folder_path) ==
    {f \in fs : f.user_id = user_id /\ InFolder(f.folder_path, folder_path)}

\* a loop that stops at the first blob that cannot be deleted
DeletedUntilFailure(matched, bucket, failed) ==
    IF \E f \in matched : f.uuid \in failed \/ f.uuid \notin bucket
    THEN {}
    ELSE matched

\* the loop of delete_folder: the rows whose blob the object store deleted;
\* failed holds the uuids for which every attempt of delete_blob raises
DeletedRows(matched, bucket, failed) ==
    {f \in matched :
        delete_blob(bucket, f.uuid,
                    IF f.uuid \in failed THEN max_retries ELSE 0)}

\* a failed commit that leaves the deletions in the table
CommitAnyway(fs, deleted, commit_ok) == fs \ deleted

\* session.commit() of delete_folder, and session.rollback() when it raised
CommitDeletions(fs, deleted, commit_ok) ==
    IF commit_ok THEN fs \ deleted ELSE fs

\* StorageService.delete_folder: the table and the bucket after the call,
\* the HTTP status and detail it ends with and deleted_count; commit_ok
\* tells whether the database accepts the commit
delete_folder(fs, bucket, user_id, folder_path, failed, commit_ok) ==
    LET matched == FolderRows(fs, user_id, folder_path)
        deleted == DeletedRows(matched, bucket, failed)
    IN  IF matched = {}
        THEN [files |-> fs, blobs |-> bucket, status |-> 404,
              detail |-> "Folder not found or empty", count |-> 0]
        ELSE [files |-> CommitDeletions(fs, deleted, commit_ok),
              blobs |-> bucket \ {f.uuid : f \in deleted},
              status |-> IF commit_ok THEN 200 ELSE 500,
              detail |-> IF commit_ok
                         THEN "Folder and its contents deleted successfully"
                         ELSE "Failed to delete folder contents from database",
              count |-> IF commit_ok THEN Cardinality(deleted) ELSE 0]

\* DELETE /storage/delete_folder/{folder_path}: the route strips the
\* trailing slashes and reports the usage after the deletion
DeleteFolder(user_id, folder_path, failed, commit_ok) ==
    LET r == delete_folder(files, blobs, user_id, rstrip(folder_path),
                           failed, commit_ok)
    IN  /\ files' = r.files
        /\ blobs' = r.blobs
        /\ result' = [Response("delete_folder", r.status, r.detail,
                               IF r.status = 200
                               THEN get_user_storage_usage(r.files, user_id)
                               ELSE 0)
                      EXCEPT !.count = r.count]
        /\ UNCHANGED <<auth_vars, file_seq>>

\* a subfolder name that is all of the path below the folder
RestOfPath(path, folder_path) ==
    strip(SubSeq(path, Len(folder_path) + 1, Len(path)))

\* the subfolder explore_folder adds for a row below the folder: the first
\* segment of the path that follows the folder path
SubFolder(path, folder_path) ==
    FirstSegment(strip(SubSeq(path, Len(folder_path) + 1, Len(path))))

\* StorageService.explore_folder: the status, the names of the folders and
\* the uuids of the files of the listing; both lists are sorted by name
explore_folder(fs, user_id, path) ==
    LET folder_path == rstrip(path)
        all_files == {f \in fs : f.user_id = user_id}
        all_items == FolderRows(fs, user_id, folder_path)
    IN  IF folder_path = <<>>
        THEN [status |-> 200, detail |-> "items",
              folders |-> {FirstSegment(strip(f.folder_path)) :
                              f \in {g \in all_files :
                                  FirstSegment(strip(g.folder_path)) # <<>>}},
              listed |-> {f.uuid :
                              f \in {g \in all_files :
                                  /\ FirstSegment(strip(g.folder_path)) = <<>>
                                  /\ g.folder_path = <<>>}}]
        ELSE IF FolderRows(fs, user_id, folder_path) = {}
        THEN [status |-> 404, detail |-> "Folder not found",
              folders |-> {}, listed |-> {}]
        ELSE [status |-> 200, detail |-> "items",
              folders |-> {SubFolder(f.folder_path, folder_path) :
                              f \in {g \in all_items :
                                  g.folder_path # folder_path}},
              listed |-> {f.uuid :
                              f \in {g \in all_items :
                                  g.folder_path = folder_path}}]

\* GET /storage/explore_folder/{folder_path}
ExploreFolder(user_id, folder_path) ==
    LET r == explore_folder(files, user_id, rstrip(folder_path))
    IN  /\ result' = [Response("explore_folder", r.status, r.detail, user_id)
                      EXCEPT !.folders = r.folders, !.listed = r.listed]
        /\ UNCHANGED <<auth_vars, storage_vars>>

\* the folder paths of the stored files: the root, a folder, a folder in it,
\* a folder in that one and a folder whose name begins with the name of the
\* first
RootPath == <<>>
FolderA == <<"a">>
FolderAB == <<"a", "/", "b">>
FolderABC == <<"a", "/", "b", "/", "c">>
FolderAb == <<"a", "b">>
\* the folder paths a client can name: those, one with a trailing slash and
\* one that holds no file
FolderInputs == {RootPath, FolderA, FolderAB, FolderAb, <<"a", "/">>, <<"c">>}
\* the declared size of each stored file
StoredSize == 1024

\* The folders are explored from the state the service is in after the first
\* user staged five uploads and the second one, wrote and confirmed all but
\* the first, which is staged only.
StoredFile(seq, file_name, folder_path, user_id) ==
    [NewFile(seq, file_name, folder_path, StoredSize, user_id)
       EXCEPT !.confirmation = TRUE, !.created_at = 0]

InitFolders ==
    /\ InitAccounts
    /\ files = {[StoredFile(0, "f", RootPath, 1)
                   EXCEPT !.confirmation = FALSE],
                StoredFile(1, "f", FolderAB, 1),
                StoredFile(2, "f", FolderA, 1),
                StoredFile(3, "f", FolderAb, 1),
                StoredFile(4, "g", FolderABC, 1),
                StoredFile(5, "f", FolderA, 2)}
    /\ file_seq = 6
    /\ blobs = {2, 3, 4, 5, 6}

\* the uuids an object-store outage can concern
StoredIds == {f.uuid : f \in files}
\* those of them that matter to a deletion of the folder by the user
OutageIds(u, d) == {f.uuid : f \in FolderRows(files, u, rstrip(d))}

NextFolders ==
    \/ \E u \in Owners, d \in FolderInputs :
          \E failed \in SUBSET OutageIds(u, d), ok \in BOOLEAN :
             DeleteFolder(u, d, failed, ok)
    \/ \E u \in Owners, d \in FolderInputs : ExploreFolder(u, d)

SpecFolders == InitFolders /\ [][NextFolders]_vars

\* ---------------------------------------------- folder names with wildcards
\* folder paths with a name that holds a character SQL LIKE reads as a
\* wildcard, and with a name that differs from it in that character
WildcardInputs ==
    {<<"a", "_", "b">>, <<"a", "x", "b">>, <<"a", "x", "b", "/", "c">>,
     <<"a", "_", "b", "/">>}

\* The state after the first user stored a file in a_b, one in axb and one
\* in axb/c, and the second user one in a_b.
InitWildcards ==
    /\ InitAccounts
    /\ files = {StoredFile(0, "f", <<"a", "_", "b">>, 1),
                StoredFile(1, "f", <<"a", "x", "b">>, 1),
                StoredFile(2, "f", <<"a", "x", "b", "/", "c">>, 1),
                StoredFile(3, "f", <<"a", "_", "b">>, 2)}
    /\ file_seq = 4
    /\ blobs = {1, 2, 3, 4}

NextWildcards ==
    \/ \E u \in Owners, d \in WildcardInputs :
          \E failed \in SUBSET OutageIds(u, d), ok \in BOOLEAN :
             DeleteFolder(u, d, failed, ok)
    \/ \E u \in Owners, d \in WildcardInputs : ExploreFolder(u, d)

SpecWildcards == InitWildcards /\ [][NextWildcards]_vars

\* ------------------------------------------------------ the nightly cleanup
\* a row the cleanup is meant for: not confirmed, and created more than
\* max_age_hours before n
Stale(f, n) == ~f.confirmation /\ f.created_at < n - max_age_hours * 60

\* "async with get_session()" of cleanup_unconfirmed_uploads: get_session is
\* an async generator function, and the generator object it returns is no
\* asynchronous context manager, so the statement raises TypeError and no
\* session is opened
SessionOpens == FALSE

\* "datetime.timedelta(hours=max_age_hours)" of _perform_cleanup: services.py
\* imports the class with "from datetime import datetime", and the class has
\* no attribute timedelta, so the expression raises AttributeError and no
\* cutoff time is computed
CutoffComputes == FALSE

\* StorageService._perform_cleanup: the table and the bucket after the call,
\* and "raise" when it ends with an exception
perform_cleanup(fs, bucket, n) ==
    IF ~CutoffComputes
    THEN [files |-> fs, blobs |-> bucket, status |-> "raise"]
    ELSE LET unconfirmed_files == {f \in fs : Stale(f, n)}
         IN  [files |-> fs \ unconfirmed_files,
              blobs |-> bucket \ {f.uuid : f \in unconfirmed_files},
              status |-> "success"]

\* a cleanup that deletes every row older than the maximal age, confirmed
\* or not
cleanup_old_uploads(fs, bucket, n, has_session) ==
    LET old == {f \in fs : f.created_at < n - max_age_hours * 60}
    IN  [files |-> fs \ old, blobs |-> bucket \ {f.uuid : f \in old},
         status |-> "success"]

\* StorageService.cleanup_unconfirmed_uploads: every exception is caught and
\* turned into the value {"status": "error"}; has_session tells whether the
\* caller passed a session
cleanup_unconfirmed_uploads(fs, bucket, n, has_session) ==
    LET r == IF ~has_session /\ ~SessionOpens
             THEN [files |-> fs, blobs |-> bucket, status |-> "raise"]
             ELSE perform_cleanup(fs, bucket, n)
    IN  IF r.status = "raise"
        THEN [files |-> fs, blobs |-> bucket, status |-> "error"]
        ELSE r

\* the job setup_scheduled_tasks registers for 2 a.m. every day: it calls
\* cleanup_unconfirmed_uploads without a session and logs what it returned
ScheduledCleanup ==
    LET r == cleanup_unconfirmed_uploads(files, blobs, now, FALSE)
    IN  /\ files' = r.files
        /\ blobs' = r.blobs
        /\ result' = Response("cleanup", 0, r.status, 0)
        /\ UNCHANGED <<auth_vars, file_seq>>

\* the clock of the cleanup advances by half the maximal age
SweepTick == (max_age_hours * 60) \div 2

TickSweep ==
    /\ now' = now + SweepTick
    /\ result' = NoResult
    /\ UNCHANGED <<users, verification_tokens, refresh_tokens,
                   issued_verification, redeemed, inflight, storage_vars>>

InSweep ==
    /\ file_seq' <= MaxFiles
    /\ now' <= (MaxTicks + 1) * SweepTick

NextSweep ==
    \/ \E u \in Owners, n \in FileNames, d \in Folders, ok \in BOOLEAN :
          UploadFile(u, n, d, HalfQuota, ok) /\ InSweep
    \/ PutBlob /\ InSweep
    \/ \E u \in Owners, id \in FileIds : ConfirmUpload(u, id) /\ InSweep
    \/ TickSweep /\ InSweep
    \/ ScheduledCleanup /\ InSweep

SpecSweep == InitLedger /\ [][NextSweep]_vars

\* the cleanup and the uploads of one user, all of them signed
NextSweepOfOne ==
    \/ \E n \in FileNames, d \in Folders :
          UploadFile(1, n, d, HalfQuota, TRUE) /\ InSweep
    \/ PutBlob /\ InSweep
    \/ \E id \in FileIds : ConfirmUpload(1, id) /\ InSweep
    \/ TickSweep /\ InSweep
    \/ ScheduledCleanup /\ InSweep

SpecSweepOfOne == InitLedger /\ [][NextSweepOfOne]_vars

\* =================================================== properties: the ledger
TokenIds == 1..Len(refresh_tokens)

\* the stored rows whose token string is s
RowsOf(s) == {i \in TokenIds : refresh_tokens[i].token = s}

\* s is the string of a stored token that is neither revoked nor expired
Usable(s) ==
    \E i \in RowsOf(s) : /\ ~refresh_tokens[i].is_revoked
                         /\ refresh_tokens[i].expires_at > now

\* the step is a refresh request for the string s
RefreshStep(s) == result'.op = "refresh" /\ result'.arg = s

Alerted == result.op = "refresh" /\ result.detail = "Security alert"

FamilyOf(f) == {i \in TokenIds : refresh_tokens[i].family_id = f}

\* C1: redeem of a valid, unexpired, unrevoked refresh token succeeds, a
\* string is redeemed successfully at most once, and every redeem of a string
\* that was redeemed before ends with the security alert, never with the
\* ordinary "Invalid refresh token" answer.
C1_RedeemOnce ==
    [][\A s \in TokenStrings :
          RefreshStep(s) =>
            /\ Usable(s) => result'.status = 200 /\ s \in redeemed'
            /\ result'.status = 200 => s \notin redeemed
            /\ s \in redeemed =>
                 /\ result'.status = 401
                 /\ result'.detail = "Security alert"
                 /\ result'.detail # "Invalid refresh token"]_vars

\* a string that was redeemed successfully has been presented again
C1_Witness ==
    /\ Alerted
    /\ result.arg \in redeemed

\* C2: after a redeem that ended with the security alert, every refresh
\* token of the redeemed token's family is revoked, ancestors and descendants
\* alike.
C2_FamilyRevoked ==
    Alerted =>
        \A i \in RowsOf(result.arg) :
            \A j \in FamilyOf(refresh_tokens[i].family_id) :
                refresh_tokens[j].is_revoked

\* the replayed token has an ancestor and a descendant in its family
C2_Witness ==
    /\ Alerted
    /\ \E i \in RowsOf(result.arg) :
          /\ refresh_tokens[i].previous_token_id # 0
          /\ \E j \in TokenIds : refresh_tokens[j].previous_token_id = i
          /\ Cardinality(FamilyOf(refresh_tokens[i].family_id)) >= 3

\* C3: with requests executed one at a time, every token family holds at most
\* one token that is neither revoked nor expired.
C3_OneUsablePerFamily ==
    \A f \in FamilyIds(refresh_tokens) :
        Cardinality({i \in FamilyOf(f) :
                        /\ ~refresh_tokens[i].is_revoked
                        /\ refresh_tokens[i].expires_at > now}) <= 1

\* two families, one of them rotated, each with its one usable token
C3_Witness ==
    /\ Cardinality(FamilyIds(refresh_tokens)) >= 2
    /\ \E f \in FamilyIds(refresh_tokens) : Cardinality(FamilyOf(f)) >= 2
    /\ \A f \in FamilyIds(refresh_tokens) :
          \E i \in FamilyOf(f) : /\ ~refresh_tokens[i].is_revoked
                                 /\ refresh_tokens[i].expires_at > now

\* C4: a successful redeem adds exactly one token; it has the family id and
\* the user id of the redeemed token and the redeemed token's id as
\* previous_token_id, and it is the only successor of that token.  In every
\* state a previous_token_id is null or the id of a revoked token of the same
\* family.
C4_PreviousLinks ==
    \A i \in TokenIds :
        LET p == refresh_tokens[i].previous_token_id
        IN  p # 0 =>
              /\ p \in TokenIds
              /\ refresh_tokens[p].is_revoked
              /\ refresh_tokens[p].family_id = refresh_tokens[i].family_id

C4_Successor ==
    /\ []C4_PreviousLinks
    /\ [][\A s \in TokenStrings :
            (RefreshStep(s) /\ result'.status = 200) =>
              /\ Len(refresh_tokens') = Len(refresh_tokens) + 1
              /\ \A i \in RowsOf(s) :
                   LET new == refresh_tokens'[Len(refresh_tokens')]
                   IN  /\ new.family_id = refresh_tokens[i].family_id
                       /\ new.user_id = refresh_tokens[i].user_id
                       /\ new.previous_token_id = refresh_tokens[i].id
                       /\ new.token = result'.refresh
                       /\ ~new.is_revoked
                       /\ Cardinality({j \in 1..Len(refresh_tokens') :
                             refresh_tokens'[j].previous_token_id =
                                 refresh_tokens[i].id}) = 1]_vars

\* a redeem has just succeeded and its successor is the newest token
C4_Witness ==
    /\ result.op = "refresh"
    /\ result.status = 200
    /\ refresh_tokens # <<>>
    /\ refresh_tokens[Len(refresh_tokens)].previous_token_id # 0
    /\ refresh_tokens[Len(refresh_tokens)].token = result.refresh

\* C5: redeem of a string that matches no stored refresh token answers
\* "Invalid refresh token" and changes nothing: no token is revoked, none is
\* created, no family is revoked.
C5_UnknownIsInvalid ==
    [][\A s \in TokenStrings :
          (RefreshStep(s) /\ RowsOf(s) = {}) =>
            /\ result'.status = 401
            /\ result'.detail = "Invalid refresh token"
            /\ refresh_tokens' = refresh_tokens
            /\ users' = users
            /\ redeemed' = redeemed]_vars

\* an unknown string was refused while a usable token is stored
C5_Witness ==
    /\ result.op = "refresh"
    /\ result.detail = "Invalid refresh token"
    /\ RowsOf(result.arg) = {}
    /\ \E i \in TokenIds : ~refresh_tokens[i].is_revoked

\* C6: redeem of a stored token that is not revoked but has expires_at <= now
\* is treated like reuse: the whole family is revoked, no successor is
\* issued, and the answer is the security alert.
C6_ExpiredIsReuse ==
    [][\A s \in TokenStrings :
          (/\ RefreshStep(s)
           /\ \E i \in RowsOf(s) : /\ ~refresh_tokens[i].is_revoked
                                   /\ refresh_tokens[i].expires_at <= now) =>
            /\ result'.status = 401
            /\ result'.detail = "Security alert"
            /\ Len(refresh_tokens') = Len(refresh_tokens)
            /\ redeemed' = redeemed
            /\ \A i \in RowsOf(s) : \A j \in TokenIds :
                 refresh_tokens[j].family_id = refresh_tokens[i].family_id
                    => refresh_tokens'[j].is_revoked]_vars

\* an expired token that nothing had revoked was presented: the alert
\* revoked it together with its family
C6_Witness ==
    /\ Alerted
    /\ result.count >= 1
    /\ \E i \in RowsOf(result.arg) :
          /\ refresh_tokens[i].expires_at <= now
          /\ refresh_tokens[i].is_revoked
          /\ result.count = Cardinality(FamilyOf(refresh_tokens[i].family_id))

\* C7: revoke_token_family returns the number of tokens it changed from not
\* revoked to revoked, changes no other token, and a second call on the same
\* family returns 0 and changes nothing.
C7_RevokeTwice ==
    \A f \in FamilyIds(refresh_tokens) :
        LET r1 == revoke_token_family(refresh_tokens, f)
            r2 == revoke_token_family(r1.tokens, f)
        IN  /\ Len(r1.tokens) = Len(refresh_tokens)
            /\ r1.count = Cardinality({i \in TokenIds :
                              /\ ~refresh_tokens[i].is_revoked
                              /\ r1.tokens[i].is_revoked})
            /\ \A i \in TokenIds :
                 r1.tokens[i] # refresh_tokens[i] =>
                    /\ refresh_tokens[i].family_id = f
                    /\ ~refresh_tokens[i].is_revoked
                    /\ r1.tokens[i] =
                          [refresh_tokens[i] EXCEPT !.is_revoked = TRUE]
            /\ r2.count = 0
            /\ r2.tokens = r1.tokens

C7_RevokeFamilyCount ==
    /\ []C7_RevokeTwice
    /\ [][(result'.op = "refresh" /\ result'.detail = "Security alert") =>
            /\ result'.count =
                 Cardinality({i \in TokenIds :
                     /\ ~refresh_tokens[i].is_revoked
                     /\ refresh_tokens'[i].is_revoked})
            /\ (Alerted /\ result.arg = result'.arg) => result'.count = 0]_vars

\* the family of a replayed token was revoked a second time: count 0
C7_Witness ==
    /\ Alerted
    /\ result.count = 0
    /\ \E i \in RowsOf(result.arg) :
          Cardinality(FamilyOf(refresh_tokens[i].family_id)) >= 2

\* C8: logout always answers 200, also for an unknown or an already revoked
\* string; it revokes the token with that string and leaves every other
\* token, the other tokens of the same family included, as it was; and a
\* second logout with the same string changes nothing.
C8_LogoutIdempotent ==
    \A s \in TokenStrings :
        LogoutTokens(LogoutTokens(refresh_tokens, s), s) =
            LogoutTokens(refresh_tokens, s)

LoginCase(email, password) ==
    LET m == UsersByEmail(users, email)
    IN  IF m = {} THEN "absent"
        ELSE LET u == users[CHOOSE i \in m : TRUE]
             IN  IF u.auth_provider # "password" THEN "other_provider"
                 ELSE IF u.password_hash # generate_password_hash(password)
                      THEN "mismatch"
                      ELSE IF ~u.is_verified THEN "unverified" ELSE "ok"

\* a failed login issues no access token and no refresh token
NothingIssued ==
    /\ result'.status # 200
    /\ result'.access = {}
    /\ result'.refresh = 0
    /\ refresh_tokens' = refresh_tokens

\* C9 as stated: login fails 401 Unauthorized for an absent user, for an
\* account of another provider and for a wrong password, 403 Forbidden for
\* an unverified account, and issues no token in these cases.
C9_AsStated ==
    [][result'.op = "login" =>
         LET c == LoginCase(result'.email, result'.password)
         IN  /\ c \in {"absent", "other_provider", "mismatch"}
                  => result'.status = 401
             /\ c = "unverified" => result'.status = 403
             /\ c # "ok" => NothingIssued]_vars

\* C9, amended: login fails 401 Unauthorized for an absent user and for a
\* wrong password on a password account, 400 Bad Request for an account whose
\* provider is not password (whatever the password), 403 Forbidden for an
\* unverified account with the right password, and issues no access token and
\* no refresh token in all these cases.
C9_LoginFailures ==
    [][result'.op = "login" =>
         LET c == LoginCase(result'.email, result'.password)
         IN  /\ c \in {"absent", "mismatch"} => result'.status = 401
             /\ c = "other_provider" => result'.status = 400
             /\ c = "unverified" => result'.status = 403
             /\ c # "ok" => NothingIssued]_vars

\* a password login was tried on an account created by Google login
C9_Witness ==
    /\ result.op = "login"
    /\ result.status = 400
    /\ LoginCase(result.email, result.password) = "other_provider"
    /\ refresh_tokens # <<>>

\* C10: there is at most one user per e-mail address, also when register
\* requests and Google logins for the same address interleave, and no user is
\* created for an address that already has one.
C10_OneUserPerEmail ==
    /\ [](\A e \in Emails : Cardinality(UsersByEmail(users, e)) <= 1)
    /\ [][\A e \in Emails :
            Cardinality(UsersByEmail(users', e)) >
               Cardinality(UsersByEmail(users, e))
            => UsersByEmail(users, e) = {}]_vars

\* the account of that e-mail address exists and is not active
Inactive(email) ==
    \E i \in UsersByEmail(users, email) : ~users[i].is_active

\* C25: a password login to an account whose is_active is false issues no
\* access token and no refresh token, and ends with 403 Forbidden when the
\* password is the right one.
C25_InactiveForbidden ==
    [][result'.op = "login" /\ Inactive(result'.email) =>
         /\ NothingIssued
         /\ LoginCase(result'.email, result'.password) \in {"unverified", "ok"}
              => result'.status = 403]_vars

\* C27: under every interleaving of the steps of concurrent refresh
\* requests no token has two successors and no family holds two usable
\* tokens, so two redemptions of the same active token never both succeed.
C27_OneSuccessor ==
    /\ \A i \in 1..Len(refresh_tokens) :
          Cardinality({j \in 1..Len(refresh_tokens) :
                          refresh_tokens[j].previous_token_id = i}) <= 1
    /\ \A f \in FamilyIds(refresh_tokens) :
          Cardinality({j \in 1..Len(refresh_tokens) :
                          /\ refresh_tokens[j].family_id = f
                          /\ ~IsReuse(refresh_tokens[j], now)}) <= 1

\* the row of the token the request p is redeeming has a successor in the
\* next state that the current state does not hold
Succeeded(p) ==
    \E j \in (Len(refresh_tokens) + 1)..Len(refresh_tokens') :
       refresh_tokens'[j].previous_token_id = inflight[p].uid

\* C28: the commit of a rotation either fails, and then the table of
\* refresh tokens is as before, with the redeemed token as active as it was
\* and without a successor, and the request ends with HTTP 500; or it
\* succeeds, and then the redeemed token is revoked and its successor is
\* stored.  No step revokes the redeemed token without storing a successor.
C28_AtomicRotation ==
    [][\A p \in Requests :
          /\ RefreshCommit(p, FALSE) =>
                /\ refresh_tokens' = refresh_tokens
                /\ result'.status = 500
                /\ result'.refresh = 0
          /\ RefreshCommit(p, TRUE) =>
                /\ refresh_tokens'[inflight[p].uid].is_revoked
                /\ Succeeded(p)
                /\ result'.status = 200
    ]_vars

\* a redemption failed at its commit: the token it presented is still
\* active and has no successor
C28_Witness ==
    /\ result.op = "refresh"
    /\ result.status = 500
    /\ \E i \in 1..Len(refresh_tokens) :
          /\ refresh_tokens[i].token = result.arg
          /\ ~refresh_tokens[i].is_revoked
          /\ \A j \in 1..Len(refresh_tokens) :
                refresh_tokens[j].previous_token_id # i

\* C36: when the last response was the security alert of a redemption that
\* revoked the family of its token, no step of any request leaves a token
\* of that family that is neither revoked nor expired; so a rotation that
\* read its token as active before the revocation stores no usable
\* successor in the family afterwards.
C36_FamilyStaysDead ==
    [][result.op = "refresh" /\ result.detail = "Security alert" =>
         \A i \in SelectTokenByString(refresh_tokens, result.arg) :
            \A j \in 1..Len(refresh_tokens') :
               refresh_tokens'[j].family_id = refresh_tokens[i].family_id
               => IsReuse(refresh_tokens'[j], now')]_vars

\* C37: a registration that succeeds stores the user with is_verified
\* false, whatever the request body held; and where no e-mail verification
\* and no OAuth login takes place, no password login succeeds and no
\* refresh token is issued.
C37_RegisteredUnverified ==
    [][/\ result'.op = "register" /\ result'.status = 201 =>
             ~users'[result'.arg].is_verified
       /\ result'.op = "login" =>
             result'.status # 200 /\ refresh_tokens' = refresh_tokens]_vars

\* C33: a login that succeeds, by password or with Google, appends one
\* refresh token whose family id no earlier token carries and whose
\* previous_token_id is null, hands out that token, and changes no earlier
\* token.
C33_LoginNewFamily ==
    [][result'.op \in {"login", "login_google"} /\ result'.status = 200 =>
         /\ Len(refresh_tokens') = Len(refresh_tokens) + 1
         /\ SubSeq(refresh_tokens', 1, Len(refresh_tokens)) = refresh_tokens
         /\ LET t == refresh_tokens'[Len(refresh_tokens')]
            IN  /\ t.family_id \notin FamilyIds(refresh_tokens)
                /\ t.previous_token_id = 0
                /\ t.token = result'.refresh
                /\ ~t.is_revoked]_vars

\* a login succeeded while the ledger held a token of an earlier family,
\* and another one that succeeded revoked
C33_Witness ==
    /\ result.op \in {"login", "login_google"}
    /\ result.status = 200
    /\ Len(refresh_tokens) >= 3
    /\ refresh_tokens[Len(refresh_tokens)].token = result.refresh
    /\ \E i \in 1..Len(refresh_tokens) - 1 : refresh_tokens[i].is_revoked

\* the token is one create_verification_token made
IsVerificationToken(tok) ==
    "type" \in DOMAIN tok /\ tok.type = "email_verification"

\* C35: a request that presents a verification token as its bearer token is
\* never authenticated: get_current_user returns no user for it.
C35_VerificationTokenIsNoBearer ==
    [][/\ result'.op = "authenticate"
       /\ \E tok \in result'.access : IsVerificationToken(tok)
       => result'.status # 200 /\ result'.arg = 0]_vars

\* C31: a register request whose verification mail failed ends with 201,
\* with the user and the verification token stored; a refresh request for
\* a reused token whose security alert failed ends with 401 'Security
\* alert', with no token of the family left unrevoked.
C31_NotificationIsolated ==
    [][result'.mail = "failed" =>
         /\ result'.op = "register" =>
               /\ result'.status = 201
               /\ Len(users') = Len(users) + 1
               /\ result'.arg = Len(users')
               /\ \E vt \in verification_tokens' \ verification_tokens :
                     vt.user_id = Len(users')
         /\ result'.op = "refresh" =>
               /\ result'.status = 401
               /\ result'.detail = "Security alert"
               /\ \A i \in SelectTokenByString(refresh_tokens, result'.arg) :
                     \A j \in 1..Len(refresh_tokens) :
                        refresh_tokens[j].family_id =
                            refresh_tokens[i].family_id
                        => refresh_tokens'[j].is_revoked
         /\ result'.op \in {"register", "refresh"}]_vars

\* a reused token was redeemed while the SMTP server was down: the family
\* was revoked, one token of it by this request
C31_Witness ==
    /\ result.op = "refresh"
    /\ result.mail = "failed"
    /\ result.status = 401
    /\ result.count = 1

\* ================================================= properties: the identity
\* the rows other than those of the address e are what they were
OtherUsersKept(e) ==
    \A i \in 1..Len(users) : users[i].email # e => users'[i] = users[i]

\* the Google login created the user of the address e: verified, without a
\* password hash, with the provider id of the assertion
CreatedByGoogle(e) ==
    /\ result'.status = 200
    /\ Len(users') = Len(users) + 1
    /\ users'[Len(users')].email = e
    /\ users'[Len(users')].is_verified
    /\ users'[Len(users')].password_hash = NULL
    /\ users'[Len(users')].provider_id = GoogleSub(e)
    /\ \A i \in 1..Len(users) : users'[i] = users[i]

\* the Google login stored the provider id on the row i and marked it verified
LinkedByGoogle(e, i) ==
    /\ result'.status = 200
    /\ result'.arg = i
    /\ Len(users') = Len(users)
    /\ users'[i] = [users[i] EXCEPT !.provider_id = GoogleSub(e),
                                    !.is_verified = TRUE]
    /\ OtherUsersKept(e)

\* the Google login returned the row i as it was
ReturnedByGoogle(i) ==
    /\ result'.status = 200
    /\ result'.arg = i
    /\ users' = users

C12_VerifyEffect ==
    [][result'.op = "verify_email" =>
         IF result'.status = 200
         THEN LET uid == result'.arg
              IN  /\ uid \in 1..Len(users)
                  /\ users' = [users EXCEPT ![uid].is_verified = TRUE]
                  /\ users'[uid].is_verified
                  /\ \A v \in verification_tokens' : v.user_id # uid
                  /\ verification_tokens' =
                        {v \in verification_tokens : v.user_id # uid}
         ELSE /\ users' = users
              /\ verification_tokens' = verification_tokens]_vars

\* a verification has just succeeded: the records of its user are gone and
\* the record of another user is still there
C12_Witness ==
    /\ result.op = "verify_email"
    /\ result.status = 200
    /\ users[result.arg].is_verified
    /\ \A v \in verification_tokens : v.user_id # result.arg
    /\ \E v \in verification_tokens : v.user_id # result.arg

\* C13: verify-email answers a token with a bad signature as invalid, and
\* answers a token with a valid signature whose expiry is in the past with an
\* expired outcome that differs from the invalid one.
C13_ExpiredIsDistinct ==
    [][\A tok \in VerificationInputs :
          VerifyEmail(tok) =>
            /\ tok.sig # "ok" =>
                 /\ result'.status = 400
                 /\ result'.detail = "Invalid verification token"
            /\ (tok.sig = "ok" /\ tok.exp < now) =>
                 /\ result'.status # 200
                 /\ result'.detail # "Invalid verification token"]_vars

\* C14: a verification token is single-use: a token whose verification-token
\* record was destroyed by a successful verify-email is refused by a later
\* verify-email.
C14_SingleUse ==
    [][\A tok \in issued_verification :
          (/\ VerifyEmail(tok)
           /\ \A v \in verification_tokens : v.token # tok) =>
            result'.status # 200]_vars

\* ==================================================== properties: the codec
\* an access token issued by a login is among the tokens a client can present
IssuedIsPresentable ==
    (result.op \in {"login", "login_google"} /\ result.status = 200)
        => result.access \subseteq AccessInputs

C15_RoundTrip ==
    /\ IssuedIsPresentable
    /\ \A i \in 1..Len(users) : \A t \in {x \in 0..now : x % AccessTick = 0} :
         LET tok == create_access_token(i, users[i].email, t)
             d == decode_access_token(tok, now)
         IN  /\ now < tok.exp =>
                  /\ d.status = "valid"
                  /\ \A c \in d.payload :
                        c.sub = i /\ c.email = users[i].email
                  /\ d.payload # {}
             /\ now > tok.exp => d.status = "expired"
             /\ decode_access_token(Tampered(tok), now).status = "invalid"
    /\ \A st \in TokenStatuses \ {"valid"} :
         credentials_error(st) =
            IF st = "expired" THEN "token_expired" ELSE "token_invalid"

\* C15: an access token issued for (sub, email) decodes, before its expiry,
\* as valid with the same sub and email; after its expiry as expired; with a
\* corrupted signature as invalid; and get_current_user answers 401 with the
\* code token_expired for expired and token_invalid for every other status
\* that is not valid.
C15_Codec ==
    /\ []C15_RoundTrip
    /\ [][\A tok \in AccessInputs :
            Authenticate(tok) =>
              LET d == decode_access_token(tok, now)
              IN  /\ d.status = "expired" =>
                       result'.status = 401 /\ result'.detail = "token_expired"
                  /\ d.status \notin {"valid", "expired"} =>
                       result'.status = 401 /\ result'.detail = "token_invalid"
                  /\ d.status = "valid" =>
                       result'.status = 200 /\ result'.arg = tok.sub]_vars

\* a token issued for a stored user was presented after its expiry and
\* refused with token_expired
C15_Witness ==
    /\ result.op = "authenticate"
    /\ result.detail = "token_expired"
    /\ \E tok \in result.access : tok.sig = "ok" /\ tok.exp < now

\* ================================================== properties: the storage
\* usage(owner): the sum of size over the owner's records
Usage(fs, u) == SumSize({f \in fs : f.user_id = u})

\* the owner u has a record with that folder and name
HasTriple(u, n, d) ==
    \E f \in files : f.user_id = u /\ f.folder_path = d /\ f.name = n

\* the outcome tells that the storage limit would be exceeded
QuotaRejected(r) ==
    /\ r.status # 201
    /\ r.detail = "File upload failed: 413: Storage limit exceeded"

\* C16: with the requests of an owner executed one at a time, an upload of
\* a new (owner, folder, name) is rejected for quota, creating no record,
\* when usage(owner) + size > 400 MB and is not rejected for quota when
\* usage(owner) + size <= 400 MB, usage being the sum of size over all the
\* owner's records; hence usage(owner) never exceeds 400 MB.
C16_QuotaDecision ==
    /\ \A u \in Owners : Usage(files, u) <= MAX_STORAGE_BYTES
    /\ \A u \in Owners, n \in FileNames, d \in Folders, z \in Sizes,
         ok \in BOOLEAN :
         LET r == upload_file(files, file_seq, u, n, d, z, ok)
         IN  ~HasTriple(u, n, d) =>
               IF Usage(files, u) + z > MAX_STORAGE_BYTES
               THEN QuotaRejected(r) /\ r.files = files
               ELSE /\ ~QuotaRejected(r)
                    /\ \E f \in r.files \ files :
                          f.size = z /\ f.user_id = u
                    /\ Usage(r.files, u) = Usage(files, u) + z

\* an owner who uses half the quota was refused an upload that exceeds the
\* quota by one byte: no owner uses more than half, so only the larger size
\* on top of a record of the smaller one can have been refused
C16_Witness ==
    /\ result.op = "upload_file"
    /\ QuotaRejected(result)
    /\ \E u \in Owners : Usage(files, u) = HalfQuota
    /\ \A u \in Owners : Usage(files, u) <= HalfQuota

\* C17: an upload that is rejected because usage + size exceeds the quota is
\* answered with the distinct quota error, HTTP 413, not with a generic
\* failure, and creates no record.
C17_QuotaExceeded413 ==
    [][\A u \in Owners, n \in FileNames, d \in Folders, z \in Sizes,
         ok \in BOOLEAN :
         (/\ result'.op = "upload_file"
          /\ ~HasTriple(u, n, d)
          /\ Usage(files, u) + z > MAX_STORAGE_BYTES
          /\ UploadFile(u, n, d, z, ok)) =>
            /\ result'.status = 413
            /\ files' = files]_vars

\* C18: an upload for an (owner, folder, name) that already has a record is
\* answered 409 Conflict and creates no record, whether the existing record is
\* confirmed or not.
C18_DuplicateConflict ==
    \A u \in Owners, n \in FileNames, d \in Folders, z \in Sizes,
      ok \in BOOLEAN :
      HasTriple(u, n, d) =>
         LET r == upload_file(files, file_seq, u, n, d, z, ok)
         IN  /\ r.status = 409
             /\ r.files = files
             /\ r.file_seq = file_seq

\* an upload was refused because of a confirmed record while the same owner
\* holds an unconfirmed record as well
C18_Witness ==
    /\ result.op = "upload_file"
    /\ result.status = 409
    /\ \E f \in files :
          /\ f.uuid = result.arg
          /\ f.confirmation
          /\ \E g \in files : g.user_id = f.user_id /\ ~g.confirmation

\* C19: when the object store fails to sign the upload URL, the insert of the
\* record is rolled back: after the failed call the upload has no record and
\* usage(owner) is what it was before the call.
C19_SigningRollback ==
    [][\A u \in Owners, n \in FileNames, d \in Folders, z \in Sizes :
         (/\ result'.op = "upload_file"
          /\ ~HasTriple(u, n, d)
          /\ Usage(files, u) + z <= MAX_STORAGE_BYTES
          /\ UploadFile(u, n, d, z, FALSE)) =>
            /\ result'.status # 201
            /\ files' = files
            /\ Usage(files', u) = Usage(files, u)]_vars

\* C20: delete_file returns a tri-state and asks the object store first: for
\* a uuid that is absent or belongs to another user it returns not found and
\* changes nothing; when the object store reports failure the row is still
\* there and the outcome is the partial failure; the row is removed, and the
\* outcome is deleted, only when the object store reported success.
C20_DeleteTriState ==
    \A u \in Owners, id \in FileIds, a \in FailedAttempts :
      LET r == delete_file(files, blobs, u, id, a)
          mine == {f \in files : f.uuid = id /\ f.user_id = u}
          stored == delete_blob(blobs, id, a)
      IN  /\ mine = {} =>
               /\ r.returns = "None"
               /\ DeleteResponse(r.returns, id).status = 404
               /\ r.files = files /\ r.blobs = blobs
          /\ (mine # {} /\ stored) =>
               /\ r.returns = "True"
               /\ DeleteResponse(r.returns, id).detail =
                     "File deleted successfully"
               /\ r.files = files \ mine
               /\ id \notin r.blobs
          /\ (mine # {} /\ ~stored) =>
               /\ r.returns = "False"
               /\ DeleteResponse(r.returns, id).status = 200
               /\ DeleteResponse(r.returns, id).detail #
                     "File deleted successfully"
               /\ r.files = files /\ r.blobs = blobs
          /\ r.files # files => (stored /\ id \in blobs)

\* the object store failed to delete a blob that exists: the row is kept
C20_Witness ==
    /\ result.op = "delete_file"
    /\ result.status = 200
    /\ result.detail = "File deletion initiated, but GCS deletion failed"
    /\ result.arg \in blobs
    /\ \E f \in files : f.uuid = result.arg

\* C26: the listing of a user's files holds confirmed files of that user
\* only; a staged upload that was not confirmed is not in it.
C26_ListsConfirmedOnly ==
    result.op = "list_files" =>
       \A id \in result.listed :
          \E f \in files : /\ f.uuid = id
                           /\ f.user_id = result.arg
                           /\ f.confirmation

\* C24: a cleanup removes the rows that are not confirmed and older than the
\* maximal age, all of them, and leaves every other row as it was.
C24_SweepStale ==
    [][result'.op = "cleanup" => files' = {f \in files : ~Stale(f, now)}]_vars

\* C39: in every state reached by concurrent uploads no two records have
\* the same owner, folder path and name.
C39_UniqueTriple ==
    \A f \in files, g \in files :
       (/\ f.user_id = g.user_id
        /\ f.folder_path = g.folder_path
        /\ f.name = g.name) => f = g

\* C40: a delete_file request of the owner for a record whose blob is not in
\* the object store, with an object store that lets no attempt fail for
\* another reason, removes the record and lowers the usage of the owner by
\* the size of the record.
C40_ReleaseReservation ==
    [][\A u \in Owners, id \in FileIds :
         (/\ DeleteFile(u, id, 0)
          /\ get_file(files, id, u) # {}
          /\ id \notin blobs) =>
            \A f \in get_file(files, id, u) :
               /\ files' = files \ {f}
               /\ Usage(files', u) = Usage(files, u) - f.size]_vars

C29_QuotaUnderConcurrency ==
    \A u \in Owners : get_user_storage_usage(files, u) <= MAX_STORAGE_BYTES

\* ================================================== properties: the folders
\* the rows a folder deletion concerns, and those of them whose blob the
\* object store deletes
Concerned(u, d) ==
    {f \in files : f.user_id = u /\ InFolder(f.folder_path, d)}

BlobDeleted(f, failed) == f.uuid \in blobs /\ f.uuid \notin failed

\* C21: a folder deletion whose commit succeeds removes exactly the matched
\* rows whose blob deletion succeeded, whichever of the other blob deletions
\* failed; the matched rows whose blob deletion failed stay, no other row is
\* touched, and the reported count is the number of rows removed.
C21_FolderDeletion ==
    \A u \in Owners, d \in FolderInputs, failed \in SUBSET StoredIds :
       LET r == delete_folder(files, blobs, u, d, failed, TRUE)
           removed == files \ r.files
       IN  Concerned(u, d) # {} =>
             /\ r.status = 200
             /\ r.files \subseteq files
             /\ removed = {f \in Concerned(u, d) : BlobDeleted(f, failed)}
             /\ r.count = Cardinality(removed)
             /\ r.blobs = blobs \ {f.uuid : f \in removed}

\* a folder deletion removed two rows and left a third row of the folder,
\* whose blob could not be deleted
C21_Witness ==
    /\ result.op = "delete_folder"
    /\ result.status = 200
    /\ result.count = 2
    /\ Cardinality(files) = 4
    /\ \E f \in files : f.user_id = 1 /\ InFolder(f.folder_path, FolderA)

RECURSIVE Segments(_)
\* the folder names a slash-delimited path is made of
Segments(s) ==
    IF s = <<>> THEN <<>>
    ELSE LET head == FirstSegment(s)
         IN  <<head>> \o Segments(SubSeq(s, Len(head) + 2, Len(s)))

\* the path lies below the folder, and the child of the folder it lies in
Below(path, d) ==
    /\ Len(Segments(path)) > Len(Segments(d))
    /\ SubSeq(Segments(path), 1, Len(Segments(d))) = Segments(d)

ChildOf(path, d) == Segments(path)[Len(Segments(d)) + 1]

NotOwned(u, id) == \A f \in files : f.uuid = id => f.user_id # u

\* C23: a download link, a confirmation and a deletion requested for a uuid
\* that is no file of the caller all end with HTTP 404 'File not found',
\* return no signed URL and leave every row, every confirmation flag and
\* every blob as it was, whether or not the object store works.
C23_OwnershipIsolation ==
    \A u \in Owners, id \in FileIds :
       NotOwned(u, id) =>
         /\ \A ok \in BOOLEAN :
               LET r == GetFileResponse(
                           get_file_response(files, id, u, ok), id)
               IN  r.status = 404 /\ r.detail = "File not found"
         /\ LET c == confirm_upload(files, u, id)
            IN  c.status = 404 /\ c.files = files
         /\ \A a \in FailedAttempts :
               LET d == delete_file(files, blobs, u, id, a)
               IN  /\ DeleteResponse(d.returns, id).status = 404
                   /\ d.files = files
                   /\ d.blobs = blobs

\* a request for the file of another user, which exists, ended with 404
C23_Witness ==
    /\ result.op \in {"get_file", "confirm_upload", "delete_file"}
    /\ result.status = 404
    /\ \E f \in files : f.uuid = result.arg

\* the path is the prefix, or begins with the prefix followed by a slash
NestedUnder(path, prefix) ==
    \/ path = prefix
    \/ /\ Len(path) > Len(prefix)
       /\ SubSeq(path, 1, Len(prefix) + 1) = prefix \o <<"/">>

\* C32: a folder deletion removes rows and blobs of the requesting user only,
\* and only of rows whose folder path is the prefix or begins with the
\* prefix followed by a slash; every other row and blob is unchanged.
C32_PrefixFrame ==
    [][\A u \in Owners, d \in WildcardInputs :
         \A failed \in SUBSET OutageIds(u, d), ok \in BOOLEAN :
            DeleteFolder(u, d, failed, ok) =>
              /\ files' \subseteq files
              /\ \A f \in files \ files' :
                    f.user_id = u /\ NestedUnder(f.folder_path, rstrip(d))
              /\ \A f \in files :
                    f.uuid \in blobs \ blobs' =>
                       f.user_id = u /\ NestedUnder(f.folder_path, rstrip(d))]_vars

\* C34: each object-store call of a storage request succeeds when fewer
\* than max_retries of its attempts fail, and reports failure only when
\* max_retries attempts failed: the signing of the upload URL of a staged
\* upload, the signing of a download URL, and the deletion of a blob that
\* exists.
C34_BoundedRetries ==
    [][\A u \in Owners, k \in FailedAttempts :
         /\ \A n \in FileNames, d \in Folders :
               /\ UploadFile(u, n, d, HalfQuota,
                             generate_signed_upload_url(k))
               /\ file_seq' = file_seq + 1
               => (result'.status = 201 <=> k < max_retries)
         /\ \A id \in FileIds :
               /\ GetFile(u, id, generate_signed_url_with_retry(k))
               /\ get_file(files, id, u) # {}
               => (result'.status = 200 <=> k < max_retries)
         /\ \A id \in FileIds :
               /\ DeleteFile(u, id, k)
               /\ get_file(files, id, u) # {}
               /\ id \in blobs
               => (result'.detail = "File deleted successfully"
                      <=> k < max_retries)]_vars

\* C30: a folder deletion whose commit fails removes no row, also not the
\* rows whose blobs it has deleted already, and ends with HTTP 500 and no
\* count of deleted files.
C30_CommitFailure ==
    \A u \in Owners, d \in FolderInputs, failed \in SUBSET StoredIds :
       LET r == delete_folder(files, blobs, u, d, failed, FALSE)
       IN  Concerned(u, d) # {} =>
             /\ r.files = files
             /\ r.status = 500
             /\ r.count = 0
             /\ r.blobs = blobs \ {f.uuid : f \in
                                     {g \in Concerned(u, d) :
                                         BlobDeleted(g, failed)}}

\* a folder deletion failed at its commit after it had deleted a blob: the
\* row of a confirmed file is kept and its blob is gone
C30_Witness ==
    /\ result.op = "delete_folder"
    /\ result.status = 500
    /\ \E f \in files : f.confirmation /\ f.uuid \notin blobs
====
